---- MODULE Spec2Model ----
(***************************************************************************)
(* Adesto AT45DB081 NOR flash driver: address translation, erase-range     *)
(* decomposition, write sequencing and the ready/busy polling protocol.    *)
(*                                                                         *)
(* Two revisions of the driver are modelled side by side:                  *)
(*   "legacy"  : src/at45db/at45db081.cpp      (Adesto::Status codes)    *)
(*   "chimera" : src/at45db/src/at45db081.cpp  (Chimera::Status_t codes) *)
(* The flash chip is the environment: it decodes the frames the driver     *)
(* puts on the wire, is busy for a while after an erase/program command    *)
(* and reports ready/busy and erase/program error in its status register.  *)
(***************************************************************************)
EXTENDS Integers, Sequences, FiniteSets, TLC

(***************************************************************************)
(* Bounds of the model                                                     *)
(***************************************************************************)
\* The count of status-register reads of one operation saturates here.
MaxPolls == 2
\* Erase/program operations (write, erase, ...) started since construction.
MaxCalls == 1

(***************************************************************************)
(* Program constants                                                       *)
(***************************************************************************)
PAGE_SIZE_BINARY     == 256
BLOCK_SIZE_BINARY    == 2048
SECTOR_SIZE_BINARY   == 65536
PAGE_SIZE_EXTENDED   == 264
BLOCK_SIZE_EXTENDED  == 2112
SECTOR_SIZE_EXTENDED == 67584
STANDARD_PAGE_SIZE   == 264
\* The sector size a freshly constructed driver holds (header default).
SECTOR_SIZE_DEFAULT  == 65472

NumSectors == 16
NumBlocks  == 512
NumPages   == 4096
AddressByteCount == 3

ADDRESS_OVERRUN         == 1
INVALID_SECTION_NUMBER  == 2

JEDEC_CODE == 31

\* Opcodes
MAIN_MEM_PAGE_READ                    == 210
CONT_ARR_READ_LF                      == 3
CONT_ARR_READ_HF1                     == 11
BUFFER1_READ_LF                       == 209
BUFFER1_READ_HF                       == 212
BUFFER2_READ_LF                       == 211
BUFFER2_READ_HF                       == 214
BUFFER1_WRITE                         == 132
BUFFER1_TO_MAIN_MEM_PAGE_PGM_W_ERASE  == 131
BUFFER1_TO_MAIN_MEM_PAGE_PGM_WO_ERASE == 136
MAIN_MEM_PAGE_PGM_THR_BUFFER1_W_ERASE == 130
MAIN_MEM_BP_PGM_THR_BUFFER1_WO_ERASE  == 2
PAGE_ERASE                            == 129
BLOCK_ERASE                           == 80
SECTOR_ERASE                          == 124
AUTO_PAGE_REWRITE1                    == 88
STATUS_REGISTER_READ                  == 215
READ_DEVICE_INFO                      == 159
\* First wire byte of the 4-byte commands (the uint32 is copied little-endian)
CHIP_ERASE_B0              == 199
CFG_PWR_2_PAGE_SIZE_B3     == 166
CFG_STD_FLASH_PAGE_SIZE_B3 == 167
CFG_PAGE_SIZE_B0           == 61

HF_CLOCK_LIMIT == 50000000
HI_CLOCK       == 66000000

(***************************************************************************)
(* Fixed-width arithmetic                                                  *)
(***************************************************************************)
Min(a, b) == IF a < b THEN a ELSE b
U16(x) == x % 65536

\* uint32_t values as two 16-bit halves, so that sums wrap at 2^32
W32(n) == [hi |-> n \div 65536, lo |-> n % 65536]
Add32(a, b) ==
    [hi |-> (a.hi + b.hi + (a.lo + b.lo) \div 65536) % 65536, lo |-> (a.lo + b.lo) % 65536]
Ge32(a, b) == a.hi > b.hi \/ (a.hi = b.hi /\ a.lo >= b.lo)
Div32(a, d) == a.hi * (65536 \div d) + (a.hi * (65536 % d) + a.lo) \div d
Mod32(a, d) == (a.hi * (65536 % d) + a.lo) % d
\* min(a, n) for a 32-bit a and a small n
Min32(a, n) == IF a.hi > 0 THEN n ELSE Min(a.lo, n)
Shl(x, n) == x * (2 ^ n)
Shr(x, n) == x \div (2 ^ n)
LowBits(x, n) == x % (2 ^ n)
SetMax(S) == CHOOSE x \in S : \A y \in S : y <= x

\* Bitwise or of two naturals
RECURSIVE BitOr(_, _)
BitOr(a, b) ==
    IF a = 0 THEN b
    ELSE IF b = 0 THEN a
    ELSE (IF a % 2 = 1 \/ b % 2 = 1 THEN 1 ELSE 0) + 2 * BitOr(a \div 2, b \div 2)

\* cmdBuffer[1..3] = the three address bytes, most significant first
AddrBytes(fullAddress) ==
    << Shr(fullAddress, 16) % 256, Shr(fullAddress, 8) % 256, fullAddress % 256 >>

Addr24(b) == b[1] * 65536 + b[2] * 256 + b[3]

(***************************************************************************)
(* Chip geometry tables                                                    *)
(***************************************************************************)
\* chipSpecs[AT45DB081E]
chipSpecs == [numSectors |-> NumSectors, numBlocks |-> NumBlocks, numPages |-> NumPages]

\* addressFormat[AT45DB081E]: {dummyBitsMSB, addressBits, dummyBitsLSB}
addressFormat(kind, ps) ==
    LET std == (ps = STANDARD_PAGE_SIZE) IN
    CASE kind = "PAGE"      -> IF std THEN [addressBits |-> 12, dummyBitsLSB |-> 9]
                                      ELSE [addressBits |-> 12, dummyBitsLSB |-> 8]
      [] kind = "BLOCK"     -> IF std THEN [addressBits |-> 9, dummyBitsLSB |-> 12]
                                      ELSE [addressBits |-> 9, dummyBitsLSB |-> 11]
      [] kind = "SECTOR"    -> IF std THEN [addressBits |-> 4, dummyBitsLSB |-> 17]
                                      ELSE [addressBits |-> 4, dummyBitsLSB |-> 16]
      [] kind = "SECTOR0AB" -> IF std THEN [addressBits |-> 9, dummyBitsLSB |-> 12]
                                      ELSE [addressBits |-> 9, dummyBitsLSB |-> 11]

SectionCount(section) ==
    CASE section = "PAGE"   -> chipSpecs.numPages
      [] section = "BLOCK"  -> chipSpecs.numBlocks
      [] section = "SECTOR" -> chipSpecs.numSectors

VARIABLES
    rev,             \* which revision of the driver is built
    statusZero,      \* which Chimera status code has the value 0 in the build
    pageSize, blockSize, sectorSize,   \* the driver's geometry
    cmdBuffer,       \* bytes 0..3 of the command buffer (bytes 4..9 stay zero)
    errorFlags,      \* bit field: ADDRESS_OVERRUN | INVALID_SECTION_NUMBER
    clockFrequency,  \* SPI clock the driver believes it runs at
    spiInitialized, chipInitialized,   \* chimera revision's flags
    initResult,      \* what the most recent init/initialize returned
    pc,              \* where the running operation stands
    locals,          \* the running operation's local variables
    ret,             \* status returned by the most recent operation
    call,            \* the most recent call: its name and arguments
    wire,            \* frames put on the wire by the most recent operation
    polls,           \* status-register reads of the most recent operation
    segs,            \* write segments issued by the most recent write
    devBinary,       \* chip: page size configuration bit
    devBusy,         \* chip: an erase/program is in progress
    devErr,          \* chip: erase/program error bit
    flash,           \* chip: extents changed since the last write/erase began
    rd,              \* what the most recent read fetched from the chip
    calls,           \* erase/program operations started so far
    written,         \* range of the most recent write that returned success
    srOther,         \* chip: the status register bits the driver does not decode
    now,             \* AT25: Chimera::millis()
    chipBusy,        \* AT25 chip: RDY/BSY bit of status byte 1
    lockOwner,       \* AT25: thread that holds the driver's lock, 0 for none
    bus,             \* AT25: frames on the SPI bus, each with its sender
    th,              \* AT25: per thread, the running call and where it stands
    density,         \* AT25: mInfo.density, the density code of the chip
    sr25,            \* AT25 chip: status byte 1 without RDY/BSY, and status byte 2
    xfer             \* the SPI calls of one operation, one call at a time

vars == << rev, statusZero, pageSize, blockSize, sectorSize, cmdBuffer, errorFlags,
           clockFrequency, spiInitialized, chipInitialized, initResult,
           pc, locals, ret, call, wire, polls, segs,
           devBinary, devBusy, devErr, flash, rd, calls, written,
           srOther, now, chipBusy, lockOwner, bus, th, density, sr25, xfer >>

build   == << rev, statusZero, srOther >>
at25    == << now, chipBusy, lockOwner, bus, th, density, sr25, xfer >>
drvCfg  == << pageSize, blockSize, sectorSize >>
drvInit == << spiInitialized, chipInitialized, initResult, clockFrequency >>
devMem  == << flash >>

NoLocals == [fn |-> "none"]
NoCall   == [fn |-> "none"]
NoRead   == [addr |-> 0, len |-> 0]
NoWrite  == [address |-> 0, len |-> 0]

(***************************************************************************)
(* The chip                                                                *)
(***************************************************************************)
DevPageSize == IF devBinary THEN PAGE_SIZE_BINARY ELSE PAGE_SIZE_EXTENDED
DevOffsetBits == IF devBinary THEN 8 ELSE 9
DevCapacity == NumPages * DevPageSize

\* The bytes [lo, lo+len) an erase frame erases, as the chip decodes its
\* three address bytes.  Sector 0 is split: 0a is block 0, 0b the rest.
DevEraseExtent(f) ==
    LET ps  == DevPageSize
        a   == Addr24(f.addr)
        pg  == LowBits(Shr(a, DevOffsetBits), 12)
        blk == LowBits(Shr(a, DevOffsetBits + 3), 9)
        sec == LowBits(Shr(a, DevOffsetBits + 8), 4)
    IN CASE f.op = PAGE_ERASE   -> [lo |-> pg * ps, len |-> ps]
         [] f.op = BLOCK_ERASE  -> [lo |-> blk * 8 * ps, len |-> 8 * ps]
         [] f.op = SECTOR_ERASE ->
              IF sec # 0 THEN [lo |-> sec * 256 * ps, len |-> 256 * ps]
              ELSE IF blk # 0 THEN [lo |-> 8 * ps, len |-> 248 * ps]
              ELSE [lo |-> 0, len |-> 8 * ps]

IsEraseFrame(f) == f.op \in {PAGE_ERASE, BLOCK_ERASE, SECTOR_ERASE}

\* Status register as the chip reports it: bit 15 ready, bit 8 page size,
\* bit 5 erase/program error, srOther for the remaining bits; returned as
\* two bytes, high byte first.
DevStatusBytes ==
    << (IF devBusy THEN 0 ELSE 128) + (IF devBinary THEN 1 ELSE 0) + srOther[1],
       (IF devErr /\ ~devBusy THEN 32 ELSE 0) + srOther[2] >>

\* A frame on the wire; busy: the chip was busy and ignored it
Frame(op, addr, n) == [op |-> op, addr |-> addr, n |-> n, busy |-> devBusy]

\* One more status-register read on the wire (saturating count).
Polled(k) == Min(polls + k, MaxPolls)


(***************************************************************************)
(* Address translator                                                      *)
(***************************************************************************)
SectionSize(section) ==
    CASE section = "PAGE"   -> pageSize
      [] section = "BLOCK"  -> blockSize
      [] section = "SECTOR" -> sectorSize

getSectionFromAddress(section, rawAddress) == rawAddress \div SectionSize(section)

\* errorFlags |= INVALID_SECTION_NUMBER when the index is past the geometry
sectionFlags(section, sectionNumber) ==
    IF sectionNumber >= SectionCount(section) THEN {INVALID_SECTION_NUMBER} ELSE {}

getSectionStartAddress(section, sectionNumber) ==
    (sectionNumber * SectionSize(section))

\* The address built with the binary format's eight offset bits in both modes
buildReadWriteCommandBinaryOnly(pageNumber, offset) ==
    LET config == addressFormat("PAGE", PAGE_SIZE_BINARY)
        fullAddress == Shl(LowBits(U16(pageNumber), config.addressBits), config.dummyBitsLSB)
                       + LowBits(U16(offset), config.dummyBitsLSB)
    IN AddrBytes(fullAddress)

\* Address bytes of a read/write command: page and offset are uint16_t
buildReadWriteCommand(pageNumber, offset) ==
    LET config == addressFormat("PAGE", pageSize)
        fullAddress == Shl(LowBits(U16(pageNumber), config.addressBits), config.dummyBitsLSB)
                       + LowBits(U16(offset), config.dummyBitsLSB)
    IN AddrBytes(fullAddress)

\* Address bytes of an erase command.  The index is masked, never refused.
buildEraseCommand(section, sectionNumber) ==
    LET config == IF section = "SECTOR" /\ sectionNumber = 0
                  THEN addressFormat("SECTOR0AB", pageSize)
                  ELSE addressFormat(section, pageSize)
        fullAddress == IF section = "SECTOR" /\ sectionNumber = 0
                       THEN Shl(1, config.dummyBitsLSB)
                       ELSE Shl(LowBits(sectionNumber, config.addressBits), config.dummyBitsLSB)
    IN AddrBytes(fullAddress)

\* errorFlags |= ADDRESS_OVERRUN: the only trace an out-of-range index leaves
eraseFlags(section, sectionNumber) ==
    IF sectionNumber >= SectionCount(section) THEN {ADDRESS_OVERRUN} ELSE {}

(***************************************************************************)
(* Erase planner                                                           *)
(***************************************************************************)
\* MemoryRange::Range start/end carry no initialiser: a Range the planner
\* does not assign holds whatever the stack held.  Representative values:
\* a loop that does not run, and a loop that runs once for unit 2.
Indeterminate ==
    { [start |-> 1, end |-> 0], [start |-> 2, end |-> 2] }

getErasableSections(address, len) ==
    LET useS == len >= sectorSize
        nS   == len \div sectorSize
        sSt  == getSectionFromAddress("SECTOR", address)
        len1 == IF useS THEN len - sectorSize * nS ELSE len
        adr1 == IF useS THEN (address + sectorSize * nS) ELSE address
        useB == len1 >= blockSize
        nB   == len1 \div blockSize
        bSt  == getSectionFromAddress("BLOCK", adr1)
        len2 == IF useB THEN len1 - blockSize * nB ELSE len1
        adr2 == IF useB THEN (adr1 + blockSize * nB) ELSE adr1
        useP == len2 >= pageSize
        nP   == len2 \div pageSize
        pSt  == getSectionFromAddress("PAGE", adr2)
        S == IF useS THEN {[start |-> sSt, end |-> (sSt + nS - 1)]} ELSE Indeterminate
        B == IF useB THEN {[start |-> bSt, end |-> (bSt + nB - 1)]} ELSE Indeterminate
        P == IF useP THEN {[start |-> pSt, end |-> (pSt + nP - 1)]} ELSE Indeterminate
    IN { [sector |-> s, block |-> b, page |-> p] : s \in S, b \in B, p \in P }

getErasableSectionsFlags(address, len) ==
    LET useS == len >= sectorSize
        nS   == len \div sectorSize
        len1 == IF useS THEN len - sectorSize * nS ELSE len
        adr1 == IF useS THEN (address + sectorSize * nS) ELSE address
        useB == len1 >= blockSize
        nB   == len1 \div blockSize
        len2 == IF useB THEN len1 - blockSize * nB ELSE len1
        adr2 == IF useB THEN (adr1 + blockSize * nB) ELSE adr1
        useP == len2 >= pageSize
    IN (IF useS THEN sectionFlags("SECTOR", getSectionFromAddress("SECTOR", address)) ELSE {})
       \cup (IF useB THEN sectionFlags("BLOCK", getSectionFromAddress("BLOCK", adr1)) ELSE {})
       \cup (IF useP THEN sectionFlags("PAGE", getSectionFromAddress("PAGE", adr2)) ELSE {})

\* The erase call each of eraseRanges' three loops makes for its index:
\* the sector loop eraseSector(i), the block loop and the page loop eraseBlock(i).
eraseRangesCall(stage) ==
    CASE stage = "sector" -> [op |-> SECTOR_ERASE, section |-> "SECTOR"]
      [] stage = "block"  -> [op |-> BLOCK_ERASE,  section |-> "BLOCK"]
      [] stage = "page"   -> [op |-> BLOCK_ERASE,  section |-> "BLOCK"]

\* for ( i = r.start; i < r.end + 1; i++ ); no index here comes near 2^31
LoopRuns(r, i) == i < (r.end + 1)

\* The next loop iteration of eraseRanges standing at loop `stage`, index i
eraseRangesNext(range, stage, i) ==
    LET sOK == stage = "sector" /\ LoopRuns(range.sector, i)
        bI  == IF stage = "block" THEN i ELSE range.block.start
        bOK == stage \in {"sector", "block"} /\ ~sOK /\ LoopRuns(range.block, bI)
        pI  == IF stage = "page" THEN i ELSE range.page.start
        pOK == ~sOK /\ ~bOK /\ LoopRuns(range.page, pI)
    IN IF sOK THEN [stage |-> "sector", i |-> i]
       ELSE IF bOK THEN [stage |-> "block", i |-> bI]
       ELSE IF pOK THEN [stage |-> "page", i |-> pI]
       ELSE [stage |-> "done", i |-> 0]

(***************************************************************************)
(* Chip side of a transfer                                                 *)
(***************************************************************************)
\* An erase/program frame is taken only by a chip that is not busy; base is
\* the extent list the frame's effect is added to.  devErr is the error bit
\* the status register shows once the operation has finished.
DevTakes(base, extents) ==
    IF devBusy
    THEN /\ flash' = base
         /\ UNCHANGED << devBusy, devErr >>
    ELSE /\ devBusy' = TRUE
         /\ devErr' \in BOOLEAN
         /\ flash' = base \o extents

Erased(f) == LET e == DevEraseExtent(f) IN [lo |-> e.lo, len |-> e.len, src |-> -1]

\* The chip finishes the operation in progress.
DeviceComplete ==
    /\ devBusy
    /\ devBusy' = FALSE
    /\ UNCHANGED << build, at25, calls, written, drvCfg, drvInit, cmdBuffer, errorFlags, pc, locals, ret,
                    call, wire, polls, segs, devBinary, devErr, flash, rd >>

(***************************************************************************)
(* Device status monitor                                                   *)
(***************************************************************************)
\* The two bytes joined with the second one as the high byte
readStatusRegisterLowFirst == DevStatusBytes[2] * 256 + DevStatusBytes[1]

\* (val[0] << 8) | val[1] of the two bytes read after STATUS_REGISTER_READ
readStatusRegister == DevStatusBytes[1] * 256 + DevStatusBytes[2]

Bit(v, n) == (Shr(v, n) % 2) = 1

READY_BUSY_Bit       == 15
PAGE_SIZE_CONFIG_Bit == 8
ERASE_PGM_ERROR_Bit  == 5

isDeviceReady   == Bit(readStatusRegister, READY_BUSY_Bit)
isErasePgmError == Bit(readStatusRegister, ERASE_PGM_ERROR_Bit)
getPageSizeConfig == IF Bit(readStatusRegister, PAGE_SIZE_CONFIG_Bit) THEN 256 ELSE 264

\* cmdBuffer after readStatusRegister wrote its opcode into byte 0
StatusCmd(cmd) == [cmd EXCEPT ![1] = STATUS_REGISTER_READ]

(***************************************************************************)
(* eraseRanges, legacy revision                                            *)
(***************************************************************************)
\* Runs eraseRanges from loop `stage`, index i, up to its next wait loop or
\* its return; s0 holds the command buffer, wire log and extents on entry.
eraseRangesFrom(range, stage, i, flags, s0) ==
    LET n == eraseRangesNext(range, stage, i) IN
    IF n.stage = "done"
    THEN /\ ret' = "FLASH_OK"
         /\ pc' = "idle"
         /\ locals' = NoLocals
         /\ errorFlags' = errorFlags \cup flags
         /\ cmdBuffer' = s0.cmd
         /\ wire' = s0.wire
         /\ flash' = s0.flash
         /\ UNCHANGED << devBusy, devErr >>
    ELSE LET c == eraseRangesCall(n.stage)
             b == buildEraseCommand(c.section, n.i)
             f == Frame(c.op, b, 0)
         IN /\ cmdBuffer' = << c.op, b[1], b[2], b[3] >>
            /\ wire' = Append(s0.wire, f)
            /\ errorFlags' = errorFlags \cup flags \cup eraseFlags(c.section, n.i)
            /\ DevTakes(s0.flash, << Erased(f) >>)
            /\ pc' = "wait"
            /\ locals' = [fn |-> "eraseRanges", range |-> range, stage |-> n.stage, i |-> n.i]
            /\ ret' = "NONE"

\* A call that returns before any transfer
Rejected(status) ==
    /\ ret' = status
    /\ pc' = "idle"
    /\ locals' = NoLocals
    /\ wire' = << >>
    /\ UNCHANGED << cmdBuffer, errorFlags, devBusy, devErr, flash >>

\* AT45::erase(address, len), legacy revision
LegacyErase(address, len) ==
    /\ rev = "legacy" /\ pc = "idle" /\ calls < MaxCalls
    /\ calls' = calls + 1 /\ written' = NoWrite
    /\ call' = [fn |-> "erase", address |-> address, len |-> len]
    /\ polls' = 0 /\ segs' = << >> /\ rd' = NoRead
    /\ IF len = 0 THEN Rejected("ERROR_ERASE_LENGTH_INVALID")
       ELSE IF address % pageSize # 0 THEN Rejected("ERROR_ADDRESS_NOT_PAGE_ALIGNED")
       ELSE IF len % pageSize # 0 THEN Rejected("ERROR_LENGTH_NOT_PAGE_ALIGNED")
       ELSE \E range \in getErasableSections(address, len) :
              eraseRangesFrom(range, "sector", range.sector.start,
                              getErasableSectionsFlags(address, len),
                              [cmd |-> cmdBuffer, wire |-> << >>, flash |-> << >>])
    /\ UNCHANGED << build, at25, drvCfg, drvInit, devBinary >>

\* Chimera revision: isDeviceReady and isErasePgmError return a status code
ChimeraIsDeviceReady ==
    IF ~spiInitialized THEN "NOT_INITIALIZED"
    ELSE IF Bit(readStatusRegister, READY_BUSY_Bit) THEN "OK" ELSE "FAIL"

ChimeraIsErasePgmError ==
    IF ~spiInitialized THEN "NOT_INITIALIZED"
    ELSE IF Bit(readStatusRegister, ERASE_PGM_ERROR_Bit) THEN "FAIL" ELSE "OK"

\* The public status functions, called by the user while no operation runs
StatusFns == {"readStatusRegister", "isDeviceReady", "isErasePgmError"}

\* Chimera revision: without an initialised SPI layer no byte is read
StatusReads == rev = "legacy" \/ spiInitialized

\* readStatusRegister(), isDeviceReady(), isErasePgmError() as a call
StatusQuery(fn) ==
    /\ pc = "idle" /\ fn \in StatusFns
    /\ call' = [fn |-> fn]
    /\ polls' = IF StatusReads THEN 1 ELSE 0
    /\ cmdBuffer' = IF StatusReads THEN StatusCmd(cmdBuffer) ELSE cmdBuffer
    /\ ret' = CASE fn = "readStatusRegister" ->
                      (IF StatusReads THEN readStatusRegister ELSE 65535)
                 [] fn = "isDeviceReady" ->
                      (IF rev = "legacy" THEN isDeviceReady ELSE ChimeraIsDeviceReady)
                 [] fn = "isErasePgmError" ->
                      (IF rev = "legacy" THEN isErasePgmError ELSE ChimeraIsErasePgmError)
    /\ wire' = << >> /\ segs' = << >> /\ rd' = NoRead /\ written' = NoWrite
    /\ UNCHANGED << build, at25, calls, drvCfg, drvInit, errorFlags, pc, locals,
                    devBinary, devBusy, devErr, flash >>

\* C++ !status on a status code: true exactly for the code whose value is 0
Not(status) == status = statusZero

\* The condition of while ( !isDeviceReady() )
WaitAgain == IF rev = "legacy" THEN ~isDeviceReady ELSE Not(ChimeraIsDeviceReady)

\* while ( !isDeviceReady() ): one status read of a wait loop
PollReady ==
    /\ pc = "wait"
    /\ polls' = Polled(1)
    /\ cmdBuffer' = StatusCmd(cmdBuffer)
    /\ pc' = IF WaitAgain THEN "delay" ELSE "check"
    /\ UNCHANGED << build, at25, calls, written, drvCfg, drvInit, errorFlags, locals, ret, call, wire, segs,
                    devBinary, devBusy, devErr, flash, rd >>

\* Chimera::delayMilliseconds( ... ) inside a wait loop
Delay ==
    /\ pc = "delay"
    /\ pc' = "wait"
    /\ UNCHANGED << build, at25, calls, written, drvCfg, drvInit, cmdBuffer, errorFlags, locals, ret, call,
                    wire, polls, segs, devBinary, devBusy, devErr, flash, rd >>

\* if ( isErasePgmError() ) return ERROR_ERASE_FAILURE; else the next unit
EraseRangesCheck ==
    /\ pc = "check" /\ locals.fn = "eraseRanges"
    /\ polls' = Polled(1)
    /\ IF isErasePgmError
       THEN /\ ret' = "ERROR_ERASE_FAILURE"
            /\ pc' = "idle"
            /\ locals' = NoLocals
            /\ cmdBuffer' = StatusCmd(cmdBuffer)
            /\ UNCHANGED << errorFlags, wire, devBusy, devErr, flash >>
       ELSE eraseRangesFrom(locals.range, locals.stage, locals.i + 1, {},
                            [cmd |-> StatusCmd(cmdBuffer), wire |-> wire, flash |-> flash])
    /\ UNCHANGED << build, at25, calls, written, drvCfg, drvInit, call, segs, devBinary, rd >>

(***************************************************************************)
(* Write sequencer and read, legacy revision                               *)
(***************************************************************************)
getWriteReadPages(startAddress, len) ==
    LET endAddress == startAddress + len - 1
        start == getSectionFromAddress("PAGE", startAddress)
        end   == getSectionFromAddress("PAGE", endAddress)
    IN [start |-> start,
        startPageOffset |-> startAddress - getSectionStartAddress("PAGE", start),
        end |-> end,
        endPageOffset |-> endAddress - getSectionStartAddress("PAGE", end)]

getWriteReadPagesFlags(startAddress, len) ==
    sectionFlags("PAGE", getSectionFromAddress("PAGE", startAddress))
    \cup sectionFlags("PAGE", getSectionFromAddress("PAGE", startAddress + len - 1))

\* A last-page test that leaves out the comparison of the two page numbers
writeHasLastAnyPage(range) == range.endPageOffset # 0

\* if ((range.page.start != range.page.end) && (range.page.endPageOffset != 0))
writeHasLast(range) == range.start # range.end /\ range.endPageOffset # 0

\* What write does after the segment of `stage`, index i has been programmed
writeNext(range, stage, i) ==
    LET j == IF stage = "first" THEN range.start + 1 ELSE i + 1 IN
    IF stage \in {"first", "full"} /\ j < range.end THEN [stage |-> "full", i |-> j]
    ELSE IF stage \in {"first", "full"} /\ writeHasLast(range)
         THEN [stage |-> "last", i |-> range.end]
    ELSE [stage |-> "done", i |-> 0]

\* writeLen of the first page: pageSize - startPageOffset, clamped to len
firstWriteLen(range, len) == Min(len, pageSize - range.startPageOffset)

\* The segment write issues at `stage`: the first and last page go through
\* readModifyWriteManual, the pages between through pageWrite.
writeSegment(range, stage, i, currentByte, len) ==
    CASE stage = "first" -> [kind |-> "rmw", page |-> range.start, offset |-> range.startPageOffset,
                             len |-> firstWriteLen(range, len), src |-> 0]
      [] stage = "full"  -> [kind |-> "page", page |-> i, offset |-> 0,
                             len |-> pageSize, src |-> currentByte]
      [] stage = "last"  -> [kind |-> "rmw", page |-> range.end, offset |-> 0,
                             len |-> range.endPageOffset, src |-> currentByte]

\* The chip's reading of the three address bytes of a read/program frame
DevPageOf(b)   == LowBits(Shr(Addr24(b), DevOffsetBits), 12)
DevOffsetOf(b) == LowBits(Addr24(b), DevOffsetBits)

\* Bytes of the array that differ after the chip programmed the frame of seg:
\* the page is rewritten, seg.len bytes of it with the caller's data.
Programmed(b, seg) ==
    [lo |-> DevPageOf(b) * DevPageSize + seg.offset, len |-> seg.len, src |-> seg.src]

\* Issues one segment and stops at the wait loop that follows it
writeIssue(range, stage, i, currentByte, len, s0) ==
    LET seg == writeSegment(range, stage, i, currentByte, len)
        b   == buildReadWriteCommand(seg.page, 0)
        pgm == Frame(MAIN_MEM_PAGE_PGM_THR_BUFFER1_W_ERASE, b, pageSize)
    IN /\ cmdBuffer' = << MAIN_MEM_PAGE_PGM_THR_BUFFER1_W_ERASE, b[1], b[2], b[3] >>
       /\ wire' = s0.wire \o (IF seg.kind = "rmw"
                              THEN << Frame(MAIN_MEM_PAGE_READ, b, pageSize), pgm >>
                              ELSE << pgm >>)
       /\ segs' = Append(s0.segs, seg)
       /\ DevTakes(s0.flash, << Programmed(b, seg) >>)
       /\ pc' = "wait"
       /\ locals' = [fn |-> "write", range |-> range, stage |-> stage, i |-> i,
                     currentByte |-> currentByte + seg.len, len |-> len]
       /\ ret' = "NONE"

\* AT45::write(address, dataIn, len), legacy revision
LegacyWrite(address, len) ==
    /\ rev = "legacy" /\ pc = "idle" /\ calls < MaxCalls
    /\ calls' = calls + 1 /\ written' = NoWrite
    /\ call' = [fn |-> "write", address |-> address, len |-> len]
    /\ polls' = 0 /\ rd' = NoRead
    /\ IF len = 0
       THEN Rejected("ERROR_WRITE_LENGTH_INVALID") /\ segs' = << >>
       ELSE /\ writeIssue(getWriteReadPages(address, len), "first", 0, 0, len,
                          [wire |-> << >>, segs |-> << >>, flash |-> << >>])
            /\ errorFlags' = errorFlags \cup getWriteReadPagesFlags(address, len)
    /\ UNCHANGED << build, at25, drvCfg, drvInit, devBinary >>

\* if ( isErasePgmError() ) return ERROR_WRITE_FAILURE; else the next segment
WriteCheck ==
    /\ pc = "check" /\ locals.fn = "write"
    /\ polls' = Polled(1)
    /\ LET n == writeNext(locals.range, locals.stage, locals.i) IN
       IF isErasePgmError \/ n.stage = "done"
       THEN /\ ret' = IF isErasePgmError THEN "ERROR_WRITE_FAILURE" ELSE "FLASH_OK"
            /\ written' = IF isErasePgmError THEN NoWrite
                          ELSE [address |-> call.address, len |-> call.len]
            /\ pc' = "idle"
            /\ locals' = NoLocals
            /\ cmdBuffer' = StatusCmd(cmdBuffer)
            /\ UNCHANGED << wire, segs, devBusy, devErr, flash >>
       ELSE /\ writeIssue(locals.range, n.stage, n.i, locals.currentByte, locals.len,
                          [wire |-> wire, segs |-> segs, flash |-> flash])
            /\ UNCHANGED written
    /\ UNCHANGED << build, at25, calls, drvCfg, drvInit, errorFlags, call, devBinary, rd >>

\* AT45::read(address, dataOut, len), legacy revision
LegacyRead(address, len) ==
    /\ rev = "legacy" /\ pc = "idle"
    /\ call' = [fn |-> "read", address |-> address, len |-> len]
    /\ polls' = 0
    /\ IF len = 0
       THEN Rejected("ERROR_READ_LENGTH_INVALID") /\ rd' = NoRead
       ELSE LET range == getWriteReadPages(address, len)
                b  == buildReadWriteCommand(range.start, range.startPageOffset)
                op == IF clockFrequency > HF_CLOCK_LIMIT THEN CONT_ARR_READ_HF1
                                                         ELSE CONT_ARR_READ_LF
            IN /\ cmdBuffer' = << op, b[1], b[2], b[3] >>
               /\ wire' = << Frame(op, b, len) >>
               /\ rd' = [addr |-> DevPageOf(b) * DevPageSize + DevOffsetOf(b), len |-> len]
               /\ errorFlags' = errorFlags \cup getWriteReadPagesFlags(address, len)
               /\ ret' = "FLASH_OK"
               /\ UNCHANGED << pc, locals, devBusy, devErr, flash >>
    /\ UNCHANGED << build, at25, calls, written, drvCfg, drvInit, segs, devBinary >>

\* AT45::bufferRead of the legacy revision: it sets the opcode and sends
\* five bytes of the command buffer, whose address bytes it does not write
LegacyBufferRead(bufferNumber, startAddress, len) ==
    /\ rev = "legacy" /\ pc = "idle"
    /\ call' = [fn |-> "bufferRead", buffer |-> bufferNumber, offset |-> startAddress,
                len |-> len]
    /\ polls' = 0
    /\ LET op == IF clockFrequency > HF_CLOCK_LIMIT
                 THEN (IF bufferNumber = "BUFFER1" THEN BUFFER1_READ_HF ELSE BUFFER2_READ_HF)
                 ELSE (IF bufferNumber = "BUFFER1" THEN BUFFER1_READ_LF ELSE BUFFER2_READ_LF)
       IN /\ cmdBuffer' = [cmdBuffer EXCEPT ![1] = op]
          /\ wire' = << Frame(op, << cmdBuffer[2], cmdBuffer[3], cmdBuffer[4] >>, len) >>
    /\ rd' = NoRead
    /\ ret' = "FLASH_OK"
    /\ UNCHANGED << pc, locals, devBusy, devErr, flash, errorFlags >>
    /\ UNCHANGED << build, at25, calls, written, drvCfg, drvInit, segs, devBinary >>

(***************************************************************************)
(* Page size configuration and start-up, legacy revision                   *)
(***************************************************************************)
CfgByte3(binary) == IF binary THEN CFG_PWR_2_PAGE_SIZE_B3 ELSE CFG_STD_FLASH_PAGE_SIZE_B3

\* The 4-byte configuration command as memcpy lays it out in cmdBuffer
CfgCommand(binary) == << CFG_PAGE_SIZE_B0, 42, 128, CfgByte3(binary) >>

\* useBinaryPageSize / useDataFlashPageSize: the geometry is overwritten
\* before the chip's answer is looked at; then getPageSizeConfig is compared.
usePageSize(binary) ==
    /\ cmdBuffer' = StatusCmd(CfgCommand(binary))
    /\ wire' = << Frame(CFG_PAGE_SIZE_B0, << 42, 128, CfgByte3(binary) >>, 0) >>
    /\ polls' = 1
    /\ devBinary' = IF devBusy THEN devBinary ELSE binary
    /\ devBusy' = TRUE
    /\ devErr' = IF devBusy THEN devErr ELSE FALSE
    /\ pageSize'   = IF binary THEN PAGE_SIZE_BINARY ELSE PAGE_SIZE_EXTENDED
    /\ blockSize'  = IF binary THEN BLOCK_SIZE_BINARY ELSE BLOCK_SIZE_EXTENDED
    /\ sectorSize' = IF binary THEN SECTOR_SIZE_BINARY ELSE SECTOR_SIZE_EXTENDED
    /\ ret' = IF pageSize' = (IF devBinary' THEN PAGE_SIZE_BINARY ELSE PAGE_SIZE_EXTENDED)
              THEN "FLASH_OK" ELSE "ERROR_PAGE_SIZE_MISMATCH"

LegacyUsePageSize(binary) ==
    /\ rev = "legacy" /\ pc = "idle" /\ calls = 0
    /\ call' = [fn |-> IF binary THEN "useBinaryPageSize" ELSE "useDataFlashPageSize"]
    /\ usePageSize(binary)
    /\ UNCHANGED << build, at25, calls, written, drvInit, errorFlags, pc, locals, segs, flash, rd >>

\* AT45::initialize(userClockFreq): SPI set-up, two JEDEC reads, then
\* useBinaryPageSize.  spiOk, jedecOk, sameInfo are what the bus answers.
LegacyInitialize(userClockFreq, spiOk, jedecOk, sameInfo) ==
    /\ rev = "legacy" /\ pc = "idle" /\ calls = 0
    /\ call' = [fn |-> "initialize", clock |-> userClockFreq]
    /\ IF ~spiOk
       THEN /\ ret' = "ERROR_SPI_INIT_FAILED"
            /\ wire' = << >> /\ polls' = 0
            /\ UNCHANGED << cmdBuffer, drvCfg, devBinary, devBusy, devErr, clockFrequency >>
       ELSE IF ~jedecOk
       THEN /\ ret' = "ERROR_UNKNOWN_JEDEC_CODE"
            /\ wire' = << Frame(READ_DEVICE_INFO, << 0, 0, 0 >>, 3) >> /\ polls' = 0
            /\ cmdBuffer' = << READ_DEVICE_INFO, 0, 0, 0 >>
            /\ UNCHANGED << drvCfg, devBinary, devBusy, devErr, clockFrequency >>
       ELSE IF ~sameInfo
       THEN /\ ret' = "ERROR_FAILED_HIGH_FREQUENCY_TRANSACTION"
            /\ wire' = << Frame(READ_DEVICE_INFO, << 0, 0, 0 >>, 3),
                          Frame(READ_DEVICE_INFO, << 0, 0, 0 >>, 3) >> /\ polls' = 0
            /\ cmdBuffer' = << READ_DEVICE_INFO, 0, 0, 0 >>
            /\ UNCHANGED << drvCfg, devBinary, devBusy, devErr, clockFrequency >>
       ELSE /\ clockFrequency' = userClockFreq
            /\ usePageSize(TRUE)
    /\ initResult' = ret'
    /\ UNCHANGED << build, at25, calls, written, spiInitialized, chipInitialized, errorFlags, pc, locals,
                    segs, flash, rd >>

(***************************************************************************)
(* Start-up and page size configuration, Chimera revision                  *)
(***************************************************************************)
\* The chip takes the configuration command unless it is busy
DevConfigure(binary) ==
    /\ devBinary' = IF devBusy THEN devBinary ELSE binary
    /\ devBusy' = TRUE
    /\ devErr' = IF devBusy THEN devErr ELSE FALSE

\* useBinaryPageSize / useExtendedPageSize up to their wait loop
chimeraUsePageSize(binary, init, wire0) ==
    /\ cmdBuffer' = CfgCommand(binary)
    /\ wire' = Append(wire0, Frame(CFG_PAGE_SIZE_B0, << 42, 128, CfgByte3(binary) >>, 0))
    /\ DevConfigure(binary)
    /\ pc' = "wait"
    /\ locals' = [fn |-> "usePageSize", binary |-> binary, init |-> init]
    /\ ret' = "NONE"

\* chipInitialized once set stays set
stillInitialized(initResult_) == initResult_ = "OK" \/ chipInitialized

\* chipInitialized = ( initResult == ErrCode::OK ) at the end of init
initializedBy(initResult_) == initResult_ = "OK"

\* AT45::init(chip): SPI set-up, two JEDEC reads, then useBinaryPageSize
ChimeraInit(spiOk, jedecOk, sameInfo) ==
    /\ rev = "chimera" /\ pc = "idle" /\ calls = 0
    /\ call' = [fn |-> "init"]
    /\ polls' = 0
    /\ IF ~spiOk
       THEN /\ ret' = "FAILED_INIT"
            /\ cmdBuffer' = << 0, 0, 0, 0 >>
            /\ wire' = << >>
            /\ UNCHANGED << spiInitialized, pc, locals, devBinary, devBusy, devErr >>
       ELSE /\ spiInitialized' = TRUE
            /\ IF ~jedecOk
               THEN /\ ret' = "UNKNOWN_JEDEC"
                    /\ cmdBuffer' = << READ_DEVICE_INFO, 0, 0, 0 >>
                    /\ wire' = << Frame(READ_DEVICE_INFO, << 0, 0, 0 >>, 3) >>
                    /\ UNCHANGED << pc, locals, devBinary, devBusy, devErr >>
               ELSE IF ~sameInfo
               THEN /\ ret' = "HF_INIT_FAIL"
                    /\ cmdBuffer' = << READ_DEVICE_INFO, 0, 0, 0 >>
                    /\ wire' = << Frame(READ_DEVICE_INFO, << 0, 0, 0 >>, 3),
                                  Frame(READ_DEVICE_INFO, << 0, 0, 0 >>, 3) >>
                    /\ UNCHANGED << pc, locals, devBinary, devBusy, devErr >>
               ELSE chimeraUsePageSize(TRUE, TRUE,
                        << Frame(READ_DEVICE_INFO, << 0, 0, 0 >>, 3),
                           Frame(READ_DEVICE_INFO, << 0, 0, 0 >>, 3) >>)
    /\ initResult' = ret'
    /\ chipInitialized' = IF ret' = "NONE" THEN chipInitialized ELSE initializedBy(ret')
    /\ UNCHANGED << build, at25, calls, written, drvCfg, clockFrequency, errorFlags, segs, flash, rd >>

\* useBinaryPageSize() / useExtendedPageSize() called by the user
ChimeraUsePageSize(binary) ==
    /\ rev = "chimera" /\ pc = "idle" /\ calls = 0
    /\ call' = [fn |-> IF binary THEN "useBinaryPageSize" ELSE "useExtendedPageSize"]
    /\ polls' = 0
    /\ IF ~spiInitialized
       THEN Rejected("NOT_INITIALIZED") /\ UNCHANGED devBinary
       ELSE chimeraUsePageSize(binary, FALSE, << >>) /\ UNCHANGED << errorFlags, flash >>
    /\ UNCHANGED << build, at25, calls, written, drvCfg, drvInit, segs, rd >>

\* After the wait loop: if ( getPageSizeConfig() == ... ) take over the sizes
UsePageSizeCheck ==
    /\ pc = "check" /\ locals.fn = "usePageSize"
    /\ polls' = Polled(1)
    /\ cmdBuffer' = StatusCmd(cmdBuffer)
    /\ LET want == IF locals.binary THEN PAGE_SIZE_BINARY ELSE PAGE_SIZE_EXTENDED
           ok   == getPageSizeConfig = want
       IN /\ ret' = IF ok THEN "OK" ELSE "FAIL"
          /\ pageSize'   = IF ~ok THEN pageSize ELSE want
          /\ blockSize'  = IF ~ok THEN blockSize
                           ELSE IF locals.binary THEN BLOCK_SIZE_BINARY ELSE BLOCK_SIZE_EXTENDED
          /\ sectorSize' = IF ~ok THEN sectorSize
                           ELSE IF locals.binary THEN SECTOR_SIZE_BINARY ELSE SECTOR_SIZE_EXTENDED
          /\ initResult' = IF locals.init THEN ret' ELSE initResult
          /\ chipInitialized' = IF locals.init THEN initializedBy(ret') ELSE chipInitialized
    /\ pc' = "idle" /\ locals' = NoLocals
    /\ UNCHANGED << build, at25, calls, written, spiInitialized, clockFrequency, errorFlags, call,
                    wire, segs, devBinary, devBusy, devErr, flash, rd >>

(***************************************************************************)
(* Data operations, Chimera revision                                       *)
(***************************************************************************)
FLASH_CAPACITY_8MBIT == 1048576

\* getFlashCapacity() for the 8-Mbit density code the chip reports
getFlashCapacity == IF chipInitialized THEN FLASH_CAPACITY_8MBIT ELSE 0

PointerOps == {"sramLoad", "sramRead", "directPageRead", "directArrayRead",
               "byteWrite", "pageWrite", "readModifyWrite"}
EraseOps   == {"erasePage", "eraseBlock", "eraseSector"}

\* A pointer test that readModifyWrite lacks
ChecksPointerButRMW(op) == op \in PointerOps \ {"readModifyWrite"}

\* The operations that test their data pointer before anything else
ChecksPointer(op) == op \in PointerOps

EraseOpSection(op) ==
    CASE op = "erasePage"   -> "PAGE"
      [] op = "eraseBlock"  -> "BLOCK"
      [] op = "eraseSector" -> "SECTOR"

\* cmdBuffer[0] of each operation
OpCode(op) ==
    CASE op = "sramLoad"        -> BUFFER1_WRITE
      [] op = "sramRead"        -> IF clockFrequency > HF_CLOCK_LIMIT THEN BUFFER1_READ_HF
                                                                     ELSE BUFFER1_READ_LF
      [] op = "directPageRead"  -> MAIN_MEM_PAGE_READ
      [] op = "directArrayRead" -> IF clockFrequency > HF_CLOCK_LIMIT THEN CONT_ARR_READ_HF1
                                                                     ELSE CONT_ARR_READ_LF
      [] op = "byteWrite"       -> MAIN_MEM_BP_PGM_THR_BUFFER1_WO_ERASE
      [] op = "pageWrite"       -> MAIN_MEM_PAGE_PGM_THR_BUFFER1_W_ERASE
      [] op = "readModifyWrite" -> AUTO_PAGE_REWRITE1
      [] op = "erasePage"       -> PAGE_ERASE
      [] op = "eraseBlock"      -> BLOCK_ERASE
      [] op = "eraseSector"     -> SECTOR_ERASE

\* The three address bytes each operation builds
OpAddress(op, unit, offset) ==
    IF op \in EraseOps THEN buildEraseCommand(EraseOpSection(op), unit)
    ELSE IF op \in {"sramLoad", "sramRead"} THEN buildReadWriteCommand(0, offset)
    ELSE buildReadWriteCommand(unit, offset)

\* What the chip's array holds differently once it has taken the frame
OpExtents(op, b, offset, len) ==
    IF op \in EraseOps THEN << Erased(Frame(OpCode(op), b, 0)) >>
    ELSE IF op \in {"byteWrite", "pageWrite", "readModifyWrite"}
         THEN << Programmed(b, [offset |-> offset, len |-> len, src |-> 0]) >>
    ELSE << >>

\* sramLoad ... eraseSector: check chipInitialized, then the pointer or the
\* index, then build the command and transfer it.
ChimeraOp(op, isNull, unit, offset, len) ==
    /\ rev = "chimera" /\ pc = "idle" /\ calls < MaxCalls
    /\ op \in PointerOps \cup EraseOps
    /\ calls' = calls + 1 /\ written' = NoWrite
    /\ call' = [fn |-> op, null |-> isNull, unit |-> unit, offset |-> offset, len |-> len]
    /\ polls' = 0 /\ segs' = << >> /\ rd' = NoRead
    /\ IF ~chipInitialized THEN Rejected("NOT_INITIALIZED")
       ELSE IF ChecksPointer(op) /\ isNull THEN Rejected("INVAL_FUNC_PARAM")
       ELSE IF op \in EraseOps /\ unit >= SectionCount(EraseOpSection(op))
            THEN Rejected("INVAL_FUNC_PARAM")
       ELSE LET b == OpAddress(op, unit, offset) IN
            /\ cmdBuffer' = << OpCode(op), b[1], b[2], b[3] >>
            /\ wire' = << Frame(OpCode(op), b, IF op \in EraseOps THEN 0 ELSE len) >>
            /\ IF OpExtents(op, b, offset, len) = << >>
               THEN flash' = << >> /\ UNCHANGED << devBusy, devErr >>
               ELSE DevTakes(<< >>, OpExtents(op, b, offset, len))
            /\ errorFlags' = errorFlags \cup
                   (IF op \in EraseOps THEN eraseFlags(EraseOpSection(op), unit) ELSE {})
            /\ ret' = "OK"
            /\ UNCHANGED << pc, locals >>
    /\ UNCHANGED << build, at25, drvCfg, drvInit, devBinary >>

\* The 4-byte chip erase command as memcpy lays it out in cmdBuffer
ChipEraseCommand == << CHIP_ERASE_B0, 148, 128, 154 >>

\* AT45::eraseChip()
ChimeraEraseChip ==
    /\ rev = "chimera" /\ pc = "idle" /\ calls < MaxCalls
    /\ calls' = calls + 1 /\ written' = NoWrite
    /\ call' = [fn |-> "eraseChip"]
    /\ polls' = 0 /\ segs' = << >> /\ rd' = NoRead
    /\ IF ~chipInitialized THEN Rejected("NOT_INITIALIZED")
       ELSE /\ cmdBuffer' = ChipEraseCommand
            /\ wire' = << Frame(CHIP_ERASE_B0, << 148, 128, 154 >>, 0) >>
            /\ DevTakes(<< >>, << [lo |-> 0, len |-> DevCapacity, src |-> -1] >>)
            /\ ret' = "OK"
            /\ UNCHANGED << pc, locals, errorFlags >>
    /\ UNCHANGED << build, at25, drvCfg, drvInit, devBinary >>

\* AT45::erase(address, len), Chimera revision: its first statement returns
ChimeraErase(address, len) ==
    /\ rev = "chimera" /\ pc = "idle" /\ calls < MaxCalls
    /\ calls' = calls + 1 /\ written' = NoWrite
    /\ call' = [fn |-> "erase", address |-> address, len |-> len]
    /\ polls' = 0 /\ segs' = << >> /\ rd' = NoRead
    /\ Rejected("NOT_INITIALIZED")
    /\ UNCHANGED << build, at25, drvCfg, drvInit, devBinary >>

\* AT45::sramCommit(bufferNumber, pageNumber, erase): the page is programmed
\* from the SRAM buffer (src -3: whatever the buffer holds)
ChimeraSramCommit(pageNumber, erase) ==
    /\ rev = "chimera" /\ pc = "idle" /\ calls < MaxCalls
    /\ calls' = calls + 1 /\ written' = NoWrite
    /\ call' = [fn |-> "sramCommit", unit |-> pageNumber, erase |-> erase]
    /\ polls' = 0 /\ segs' = << >> /\ rd' = NoRead
    /\ IF ~chipInitialized THEN Rejected("NOT_INITIALIZED")
       ELSE LET b  == buildReadWriteCommand(pageNumber, 0)
                op == IF erase THEN BUFFER1_TO_MAIN_MEM_PAGE_PGM_W_ERASE
                               ELSE BUFFER1_TO_MAIN_MEM_PAGE_PGM_WO_ERASE
            IN /\ cmdBuffer' = << op, b[1], b[2], b[3] >>
               /\ wire' = << Frame(op, b, 0) >>
               /\ DevTakes(<< >>, << [lo |-> DevPageOf(b) * DevPageSize,
                                      len |-> DevPageSize, src |-> -3] >>)
               /\ ret' = "OK"
               /\ UNCHANGED << pc, locals, errorFlags >>
    /\ UNCHANGED << build, at25, drvCfg, drvInit, devBinary >>

(***************************************************************************)
(* write and read, Chimera revision                                        *)
(***************************************************************************)
\* Chimera::Modules::Memory::MemoryBlockRange( address, address + len, pageSize )
\* as write and read use its accessors; getConsecutiveBlocks yields
\* (startBlock, endBlock).
MemoryBlockRange(address, len) ==
    LET end == Add32(address, len) IN
    [startBlock  |-> Div32(address, pageSize),
     startOffset |-> Mod32(address, pageSize),
     startBytes  |-> Min32(len, pageSize - Mod32(address, pageSize)),
     endBlock    |-> Div32(end, pageSize),
     endOffset   |-> Mod32(end, pageSize)]

\* ( address + len ) >= getFlashCapacity() in uint32_t arithmetic
chimeraOverrun(address, len) == Ge32(Add32(address, len), W32(getFlashCapacity))

\* Conditions of the second and third part of write
cwFull(r, dataR) == r.startBlock < r.endBlock \/ (r.startBlock = r.endBlock /\ dataR)
cwLast(r)        == r.startBlock < r.endBlock /\ r.endOffset # 0

\* The part of write that follows the segment of `stage`, loop index x
cwNext(r, stage, x, dataR) ==
    IF stage = "start" /\ (r.startOffset # 0 \/ r.startBlock = r.endBlock)
    THEN [stage |-> "first", x |-> r.startBlock]
    ELSE IF stage \in {"start", "first"} /\ cwFull(r, dataR)
    THEN [stage |-> "full", x |-> r.startBlock]
    ELSE IF stage = "full" /\ x + 1 <= r.endBlock
    THEN [stage |-> "full", x |-> x + 1]
    ELSE IF stage \in {"start", "first", "full"} /\ cwLast(r)
    THEN [stage |-> "last", x |-> r.endBlock]
    ELSE [stage |-> "done", x |-> 0]

cwSegment(r, stage, x, bytesWritten) ==
    CASE stage = "first" -> [kind |-> "rmw", page |-> U16(r.startBlock), offset |-> r.startOffset,
                             len |-> r.startBytes, src |-> 0]
      [] stage = "full"  -> [kind |-> "page", page |-> U16(x), offset |-> 0,
                             len |-> pageSize, src |-> bytesWritten]
      [] stage = "last"  -> [kind |-> "rmw", page |-> U16(r.endBlock), offset |-> 0,
                             len |-> r.endOffset, src |-> bytesWritten]

\* Runs write from the end of the segment of `stage` up to its next wait
\* loop or its return
cwFrom(r, stage, x, bytesWritten, dataR, s0) ==
    LET n == cwNext(r, stage, x, dataR) IN
    IF n.stage = "done"
    THEN /\ ret' = "OK"
         /\ written' = s0.req
         /\ pc' = "idle" /\ locals' = NoLocals
         /\ cmdBuffer' = s0.cmd /\ wire' = s0.wire /\ segs' = s0.segs /\ flash' = s0.flash
         /\ UNCHANGED << devBusy, devErr >>
    ELSE LET seg == cwSegment(r, n.stage, n.x, bytesWritten)
             b   == buildReadWriteCommand(seg.page, seg.offset)
             op  == IF seg.kind = "rmw" THEN AUTO_PAGE_REWRITE1
                                        ELSE MAIN_MEM_PAGE_PGM_THR_BUFFER1_W_ERASE
         IN /\ cmdBuffer' = << op, b[1], b[2], b[3] >>
            /\ wire' = Append(s0.wire, Frame(op, b, seg.len))
            /\ segs' = Append(s0.segs, seg)
            /\ DevTakes(s0.flash, << Programmed(b, seg) >>)
            /\ pc' = "wait"
            /\ locals' = [fn |-> "cwrite", range |-> r, stage |-> n.stage, x |-> n.x,
                          bytesWritten |-> bytesWritten + seg.len, dataR |-> dataR]
            /\ ret' = "NONE"
            /\ written' = NoWrite

\* AT45::write(address, dataIn, len), Chimera revision.  dataR: the value the
\* undeclared name in the second part's condition stands for.
ChimeraWrite(address, isNull, len, dataR) ==
    /\ rev = "chimera" /\ pc = "idle" /\ calls < MaxCalls
    /\ calls' = calls + 1
    /\ call' = [fn |-> "write", address |-> address, len |-> len, null |-> isNull]
    /\ polls' = 0 /\ rd' = NoRead
    /\ IF ~chipInitialized THEN Rejected("NOT_INITIALIZED") /\ segs' = << >> /\ written' = NoWrite
       ELSE IF isNull THEN Rejected("INVAL_FUNC_PARAM") /\ segs' = << >> /\ written' = NoWrite
       ELSE IF chimeraOverrun(address, len)
            THEN Rejected("OVERRUN") /\ segs' = << >> /\ written' = NoWrite
       ELSE /\ cwFrom(MemoryBlockRange(address, len), "start", 0, 0, dataR,
                      [cmd |-> cmdBuffer, wire |-> << >>, segs |-> << >>, flash |-> << >>,
                       req |-> [address |-> address, len |-> len]])
            /\ UNCHANGED errorFlags
    /\ UNCHANGED << build, at25, drvCfg, drvInit, devBinary >>

\* After a wait loop of write: the error check that follows the first and
\* the last segment (none follows a whole page), then the next part
ChimeraWriteCheck ==
    /\ pc = "check" /\ locals.fn = "cwrite"
    /\ IF locals.stage \in {"first", "last"}
       THEN /\ polls' = Polled(1)
            /\ IF ChimeraIsErasePgmError # "OK"
               THEN /\ ret' = "FAILED_WRITE"
                    /\ pc' = "idle" /\ locals' = NoLocals
                    /\ cmdBuffer' = StatusCmd(cmdBuffer)
                    /\ UNCHANGED << wire, segs, devBusy, devErr, flash, written >>
               ELSE cwFrom(locals.range, locals.stage, locals.x, locals.bytesWritten, locals.dataR,
                           [cmd |-> StatusCmd(cmdBuffer), wire |-> wire, segs |-> segs,
                            flash |-> flash,
                            req |-> [address |-> call.address, len |-> call.len]])
       ELSE /\ UNCHANGED polls
            /\ cwFrom(locals.range, locals.stage, locals.x, locals.bytesWritten, locals.dataR,
                      [cmd |-> cmdBuffer, wire |-> wire, segs |-> segs, flash |-> flash,
                       req |-> [address |-> call.address, len |-> call.len]])
    /\ UNCHANGED << build, at25, calls, drvCfg, drvInit, errorFlags, call, devBinary, rd >>

\* AT45::read(address, dataOut, len), Chimera revision
ChimeraRead(address, isNull, len) ==
    /\ rev = "chimera" /\ pc = "idle"
    /\ call' = [fn |-> "read", address |-> address, len |-> len, null |-> isNull]
    /\ polls' = 0
    /\ IF ~chipInitialized THEN Rejected("NOT_INITIALIZED") /\ rd' = NoRead
       ELSE IF isNull THEN Rejected("INVAL_FUNC_PARAM") /\ rd' = NoRead
       ELSE IF chimeraOverrun(address, len) THEN Rejected("OVERRUN") /\ rd' = NoRead
       ELSE LET r  == MemoryBlockRange(address, len)
                b  == buildReadWriteCommand(U16(r.startBlock), U16(r.startOffset))
                op == OpCode("directArrayRead")
            IN /\ cmdBuffer' = << op, b[1], b[2], b[3] >>
               /\ wire' = << Frame(op, b, len) >>
               /\ rd' = [addr |-> DevPageOf(b) * DevPageSize + DevOffsetOf(b), len |-> len]
               /\ ret' = "OK"
               /\ UNCHANGED << pc, locals, errorFlags, devBusy, devErr, flash >>
    /\ UNCHANGED << build, at25, calls, written, drvCfg, drvInit, segs, devBinary >>

(***************************************************************************)
(* Inputs                                                                  *)
(***************************************************************************)
\* Clock the user asks initialize for: above the high-frequency read limit
Clocks == {HI_CLOCK}

\* Erase requests as <<first page, bytes past the page boundary, pages,
\* bytes past a whole number of pages>>.
EraseInputs ==
    { << 0, 0, 0, 0 >>,      \* zero length
      << 0, 3, 0, 3 >>,      \* erase(3, 3)
      << 35, 0, 1, 3 >>,     \* aligned address, unaligned length
      << 35, 0, 1, 0 >>,     \* one page
      << 8, 0, 8, 0 >>,      \* one block
      << 0, 0, 256, 0 >>,    \* sector 0
      << 256, 0, 256, 0 >>,  \* sector 1
      << 256, 0, 265, 0 >>,  \* a sector, a block and a page
      << 600, 0, 1, 0 >>,    \* a page whose index is past the block count
      << 4096, 0, 1, 0 >>,   \* the page just past the end of the array
      << 4096, 0, 256, 0 >>  \* the sector just past the end of the array
    }

\* Write requests as <<address, length>>
WriteInputs ==
    { << 0, 0 >>,                               \* zero length
      << 35 * pageSize + 84, 10 >>,             \* inside one page
      << 36 * pageSize - 6, 10 >>,              \* across one page boundary
      << 1024 * pageSize, 2 * pageSize >>,      \* two whole pages
      << 1024 * pageSize, 2 * pageSize + 1 >>,  \* one byte on the last page
      << 256 * pageSize - 4, 8 >>,              \* across a sector boundary
      << 4095 * pageSize, pageSize >>           \* the last page of the array
    }

\* Arguments of the single-command operations of the Chimera revision:
\* unit indices inside and just past the sector, block and page counts
OpUnits   == {1, 16, 512, 4096}
OpOffset  == 84
OpLen     == 10

\* <<operation, null pointer, page/block/sector index>>
OpInputs ==
    { << op, isNull, unit >> : op \in PointerOps, isNull \in BOOLEAN, unit \in {1, 4096} }
    \cup { << op, FALSE, unit >> : op \in EraseOps, unit \in OpUnits }

\* The SRAM buffers of the chip, and offsets into a buffer
SRAMBuffers   == {"BUFFER1", "BUFFER2"}
BufferOffsets == {0, OpOffset}

\* Read requests as <<address, length>>
ReadInputs ==
    { << 0, 0 >>,
      << 35 * pageSize + 84, 10 >>,
      << 36 * pageSize - 6, 10 >>,
      << 1024 * pageSize, 2 * pageSize >>,
      << 256 * pageSize - 4, 8 >> }

\* Requests that reach past the array as 32-bit words: one that ends one
\* byte past it and one whose address + len wraps around 2^32
PastTheEnd ==
    { << W32(4095 * pageSize + 1), W32(pageSize) >>,
      << [hi |-> 65535, lo |-> 65280], W32(512) >> }

\* Write requests of the Chimera revision as <<address, null pointer, len>>
ChimeraWriteInputs ==
    { << W32(in[1]), FALSE, W32(in[2]) >> : in \in WriteInputs }
    \cup { << in[1], FALSE, in[2] >> : in \in PastTheEnd }
    \cup { << W32(35 * pageSize + 84), TRUE, W32(10) >> }

\* Read requests of the Chimera revision as <<address, null pointer, len>>
ChimeraReadInputs ==
    { << W32(in[1]), FALSE, W32(in[2]) >> : in \in ReadInputs }
    \cup { << in[1], FALSE, in[2] >> : in \in PastTheEnd }
    \cup { << W32(4095 * pageSize), FALSE, W32(pageSize) >>,
           << W32(35 * pageSize + 84), TRUE, W32(10) >> }

(***************************************************************************)
(* The address builder on its own                                          *)
(***************************************************************************)
\* Page numbers and offsets handed to buildReadWriteCommand: the ends of the
\* ranges, single bits, runs of bits, and values past the geometry
AddrPages   == {0, 1, 2, 255, 256, 511, 2048, 2730, 4094, 4095, 4096, 65535}
AddrOffsets == {0, 1, 128, 170, 255, 256, 257, 263, 264, 511, 512}

\* buildReadWriteCommand(pageNumber, offset): cmdBuffer[1..3] are rewritten,
\* the opcode byte is left to the caller
BuildReadWriteCommand(pageNumber, offset) ==
    /\ pc = "idle"
    /\ call' = [fn |-> "buildReadWriteCommand", unit |-> pageNumber, offset |-> offset]
    /\ LET b == buildReadWriteCommand(pageNumber, offset)
       IN cmdBuffer' = << cmdBuffer[1], b[1], b[2], b[3] >>
    /\ UNCHANGED << build, at25, drvCfg, drvInit, errorFlags, pc, locals, ret, wire, polls,
                    segs, devBinary, devBusy, devErr, flash, rd, calls, written >>

(***************************************************************************)
(* AT25 driver                                                             *)
(***************************************************************************)
Threads == {1, 2}

\* Calls a thread makes
MaxOps == 1
\* Width of the millisecond clock in bits
ClockBits == 4
\* Milliseconds a delay may last beyond what was asked for
MaxLate == 1

ClockWrap == 2 ^ ClockBits

CHUNK_SIZE_256 == 256
CHUNK_SIZE_4K  == 4096
CHUNK_SIZE_32K == 32768
CHUNK_SIZE_64K == 65536

PAGE_SIZE   == CHUNK_SIZE_256
BLOCK_SIZE  == CHUNK_SIZE_4K
SECTOR_SIZE == CHUNK_SIZE_32K

EraseChunks == {CHUNK_SIZE_4K, CHUNK_SIZE_32K, CHUNK_SIZE_64K}

PAGE_PROGRAM    == 2
BLOCK_ERASE_4K  == 32
BLOCK_ERASE_32K == 82
BLOCK_ERASE_64K == 216
CHIP_ERASE      == 199
WRITE_ENABLE    == 6
READ_ARRAY_HS   == 11
READ_SR_BYTE1   == 5
READ_SR_BYTE2   == 53
READ_DEV_INFO   == 159

SR_RDY_BUSY == 1
TIMEOUT_5MS == 5

DENSITY_2MBIT  == 3
DENSITY_4MBIT  == 4
DENSITY_8MBIT  == 5
DENSITY_16MBIT == 6
DENSITY_32MBIT == 7
DENSITY_64MBIT == 8
DensityCodes == DENSITY_2MBIT..DENSITY_64MBIT

MEGA         == 1000000
BITS_IN_BYTE == 8

\* Adesto::densityToBytes
densityToBytes(code) ==
    CASE code = DENSITY_2MBIT  -> (2 * MEGA) \div BITS_IN_BYTE
      [] code = DENSITY_4MBIT  -> (4 * MEGA) \div BITS_IN_BYTE
      [] code = DENSITY_8MBIT  -> (8 * MEGA) \div BITS_IN_BYTE
      [] code = DENSITY_16MBIT -> (16 * MEGA) \div BITS_IN_BYTE
      [] code = DENSITY_32MBIT -> (32 * MEGA) \div BITS_IN_BYTE
      [] code = DENSITY_64MBIT -> (64 * MEGA) \div BITS_IN_BYTE
      [] OTHER -> 0

\* The switch of AT45::getFlashCapacity over chipInfo.densityCode
flashCapacityOf(code) ==
    CASE code = DENSITY_2MBIT  -> 262144
      [] code = DENSITY_4MBIT  -> 524288
      [] code = DENSITY_8MBIT  -> FLASH_CAPACITY_8MBIT
      [] code = DENSITY_16MBIT -> 2097152
      [] code = DENSITY_32MBIT -> 4194304
      [] code = DENSITY_64MBIT -> 8388608
      [] OTHER -> 0

\* Aurora::Memory::Properties before getDeviceProperties has filled it
NoProps == [ pageSize |-> 0, blockSize |-> 0, sectorSize |-> 0, startAddress |-> 0,
             endAddress |-> 0, numPages |-> 0, numBlocks |-> 0, numSectors |-> 0 ]

NoOp == [pc |-> "idle", fn |-> "none", ret |-> "NONE", n |-> 0, arg |-> << >>,
         start |-> 0, sr |-> 0, polls |-> 0, props |-> NoProps]

\* No operation is followed call by call
NoXfer == [drv |-> "none", fn |-> "none", todo |-> << >>, cs |-> "HIGH", lock |-> 0,
           spiLock |-> 0, win |-> 0, log |-> << >>, result |-> 0]

\* The AT25 driver at rest: constructed, device information read, no call made
AT25Idle ==
    /\ now = 0 /\ chipBusy = FALSE /\ lockOwner = 0 /\ bus = << >>
    /\ th = [t \in Threads |-> NoOp]
    /\ density = DENSITY_8MBIT
    /\ sr25 = << 0, 0 >>
    /\ xfer = NoXfer

\* The variables of the AT45 driver and its chip
at45 == << rev, statusZero, pageSize, blockSize, sectorSize, cmdBuffer, errorFlags,
           clockFrequency, spiInitialized, chipInitialized, initResult,
           pc, locals, ret, call, wire, polls, segs,
           devBinary, devBusy, devErr, flash, rd, calls, written, srOther >>

\* Thread t starts the call fn with arguments arg and stands at pc0
Begin(t, fn, arg, pc0) ==
    [th EXCEPT ![t] = [pc |-> pc0, fn |-> fn, ret |-> "NONE", n |-> th[t].n + 1, arg |-> arg,
                       start |-> 0, sr |-> 0, polls |-> 0, props |-> NoProps]]

\* Thread t starts the call fn, which returns status at once
Refused(t, fn, arg, status) ==
    [th EXCEPT ![t] = [pc |-> "idle", fn |-> fn, ret |-> status, n |-> th[t].n + 1, arg |-> arg,
                       start |-> 0, sr |-> 0, polls |-> 0, props |-> NoProps]]

CanCall(t) == th[t].pc = "idle" /\ th[t].n < MaxOps

\* A frame on the bus: who sent it, its opcode and its address
BusFrame(t, op, address) == [t |-> t, op |-> op, address |-> address]

\* The test erase makes for every length but the three erase-chunk sizes
validSizeOrChip(length) == length \in EraseChunks \/ length = densityToBytes(density)

\* validSize: the length is one of EraseChunks
validSize(length) == length \in EraseChunks

\* No test of the address
alignedAny(address, length) == TRUE

\* ( address % length ) == 0, evaluated for a length other than 0
aligned(address, length) == address % length = 0

\* Driver::erase( address, length ) up to this->lock()
Erase25(t, address, length) ==
    /\ CanCall(t)
    /\ th' = IF ~validSize(length) \/ length = 0
             THEN Refused(t, "erase", << address, length >>, "ERR_BAD_ARG")
             ELSE IF ~aligned(address, length)
             THEN Refused(t, "erase", << address, length >>, "ERR_BAD_ARG")
             ELSE Begin(t, "erase", << address, length >>, "lock")
    /\ UNCHANGED << at45, sr25, xfer, now, chipBusy, lockOwner, bus, density >>

\* Driver::write( address, data, length ) up to this->lock()
Write25(t, address, isNull, length) ==
    /\ CanCall(t)
    /\ th' = IF isNull \/ length = 0 \/ length > PAGE_SIZE
             THEN Refused(t, "write", << address, length >>, "ERR_BAD_ARG")
             ELSE Begin(t, "write", << address, length >>, "lock")
    /\ UNCHANGED << at45, sr25, xfer, now, chipBusy, lockOwner, bus, density >>

\* Driver::eraseChip(): goes to issueWriteEnable without this->lock()
EraseChip25(t) ==
    /\ CanCall(t)
    /\ th' = Begin(t, "eraseChip", << >>, "enable")
    /\ UNCHANGED << at45, sr25, xfer, now, chipBusy, lockOwner, bus, density >>

\* this->lock() of erase and write returns
Acquire(t) ==
    /\ th[t].pc = "lock" /\ lockOwner = 0
    /\ lockOwner' = t
    /\ th' = [th EXCEPT ![t].pc = "enable"]
    /\ UNCHANGED << at45, sr25, xfer, now, chipBusy, bus, density >>

\* issueWriteEnable()
IssueWriteEnable(t) ==
    /\ th[t].pc = "enable"
    /\ bus' = Append(bus, BusFrame(t, WRITE_ENABLE, 0))
    /\ th' = [th EXCEPT ![t].pc = "command"]
    /\ UNCHANGED << at45, sr25, xfer, now, chipBusy, lockOwner, density >>

\* The opcode erase chooses for a length; 0 for none
eraseOpcode(length) ==
    CASE length = CHUNK_SIZE_4K  -> BLOCK_ERASE_4K
      [] length = CHUNK_SIZE_32K -> BLOCK_ERASE_32K
      [] length = CHUNK_SIZE_64K -> BLOCK_ERASE_64K
      [] OTHER -> IF length = densityToBytes(density) THEN CHIP_ERASE ELSE 0

\* The command of erase, write and eraseChip, and their return
Command25(t, spiOk) ==
    /\ th[t].pc = "command"
    /\ LET fn == th[t].fn
           op == CASE fn = "write" -> PAGE_PROGRAM
                   [] fn = "eraseChip" -> CHIP_ERASE
                   [] fn \in {"erase", "eraseChunk"} -> eraseOpcode(th[t].arg[2])
           address == IF fn = "eraseChip" \/ op = CHIP_ERASE THEN 0 ELSE th[t].arg[1]
       IN IF op = 0
          THEN /\ th' = [th EXCEPT ![t].pc = "idle", ![t].ret = "ERR_UNSUPPORTED"]
               /\ UNCHANGED << bus, chipBusy >>
          ELSE /\ bus' = Append(bus, BusFrame(t, op, address))
               /\ chipBusy' = TRUE
               /\ th' = [th EXCEPT ![t].pc = "idle",
                                   ![t].ret = IF fn = "write" \/ spiOk THEN "ERR_OK"
                                              ELSE "ERR_DRIVER_ERR"]
    /\ lockOwner' = IF th[t].fn = "eraseChip" THEN lockOwner ELSE 0
    /\ UNCHANGED << at45, sr25, xfer, now, density >>

\* The events pendEvent waits for, and one it does not know
PendEvents == {"MEM_ERASE_COMPLETE", "MEM_READ_COMPLETE", "MEM_WRITE_COMPLETE"}

\* Driver::pendEvent( event, timeout ) up to its first readStatusRegister
PendEvent(t, event, timeout) ==
    /\ CanCall(t)
    /\ th' = IF event \notin PendEvents
             THEN Refused(t, "pendEvent", << event, timeout >>, "ERR_UNSUPPORTED")
             ELSE Begin(t, "pendEvent", << event, timeout >>, "first")
    /\ UNCHANGED << at45, sr25, xfer, now, chipBusy, lockOwner, bus, density >>

\* The byte the chip answers READ_SR_BYTE1 and READ_SR_BYTE2 with; bit 0 of
\* status byte 1 is RDY/BSY
ChipStatusByte(op) ==
    CASE op = READ_SR_BYTE1 -> sr25[1] + (IF chipBusy THEN SR_RDY_BUSY ELSE 0)
      [] op = READ_SR_BYTE2 -> sr25[2]
      [] OTHER -> 0

\* The first byte read shifted to the high half, the second left in the low
srShiftHighFirst(n) == IF n = 1 THEN 8 ELSE 0

\* result |= cmdBuffer[ 1 ] for the first byte read,
\* result |= ( cmdBuffer[ 1 ] << 8 ) for the second
srShift(n) == IF n = 1 THEN 0 ELSE 8

\* Driver::readStatusRegister(): the driver's lock is held for the two reads
\* and released
readStatusRegister25 ==
    Shl(ChipStatusByte(READ_SR_BYTE1), srShift(1)) + Shl(ChipStatusByte(READ_SR_BYTE2), srShift(2))

\* statusRegister = readStatusRegister() and the test of the while loop; the
\* first read is followed by startTime = Chimera::millis()
PollStatus(t) ==
    /\ th[t].pc \in {"first", "poll"} /\ lockOwner = 0
    /\ LET sr == readStatusRegister25
           waiting == (sr % 2) = SR_RDY_BUSY
       IN th' = [th EXCEPT ![t].sr = sr,
                           ![t].polls = Min(th[t].polls + 1, MaxPolls),
                           ![t].start = IF th[t].pc = "first" THEN now ELSE th[t].start,
                           ![t].pc = IF waiting THEN "timeout" ELSE "idle",
                           ![t].ret = IF waiting THEN "NONE" ELSE "ERR_OK"]
    /\ UNCHANGED << at45, sr25, xfer, now, chipBusy, lockOwner, bus, density >>

\* The clock value alone
ElapsedFromZero(start) == now

\* Chimera::millis() - startTime in the arithmetic of size_t
Elapsed(start) == (now + ClockWrap - start) % ClockWrap

\* if ( ( Chimera::millis() - startTime ) > timeout ) return ERR_TIMEOUT
CheckTimeout(t) ==
    /\ th[t].pc = "timeout"
    /\ th' = IF Elapsed(th[t].start) > th[t].arg[2]
             THEN [th EXCEPT ![t].pc = "idle", ![t].ret = "ERR_TIMEOUT"]
             ELSE [th EXCEPT ![t].pc = "delay"]
    /\ UNCHANGED << at45, sr25, xfer, now, chipBusy, lockOwner, bus, density >>

\* Chimera::delayMilliseconds( pollDelay ): the clock has advanced by the
\* delay or a little more when the thread runs again
DelayPoll(t, late) ==
    /\ th[t].pc = "delay"
    /\ now' = (now + TIMEOUT_5MS + late) % ClockWrap
    /\ th' = [th EXCEPT ![t].pc = "poll"]
    /\ UNCHANGED << at45, sr25, xfer, chipBusy, lockOwner, bus, density >>

\* Driver::getDeviceProperties()
Properties25 ==
    LET deviceSize == densityToBytes(density) IN
    [ pageSize |-> PAGE_SIZE, blockSize |-> BLOCK_SIZE, sectorSize |-> SECTOR_SIZE,
      startAddress |-> 0, endAddress |-> deviceSize,
      numPages |-> deviceSize \div PAGE_SIZE,
      numBlocks |-> deviceSize \div BLOCK_SIZE,
      numSectors |-> deviceSize \div SECTOR_SIZE ]

GetDeviceProperties(t) ==
    /\ CanCall(t)
    /\ th' = [Refused(t, "getDeviceProperties", << >>, "NONE") EXCEPT ![t].props = Properties25]
    /\ UNCHANGED << at45, sr25, xfer, now, chipBusy, lockOwner, bus, density >>

\* The chunk types of Aurora::Memory::Chunk that erase( chunk, id ) knows,
\* and one it does not
Chunks == {"PAGE", "BLOCK", "SECTOR", "NONE"}

\* chunkSize of erase( chunk, id )
chunkSizeOf(chunk) ==
    CASE chunk = "PAGE"   -> PAGE_SIZE
      [] chunk = "BLOCK"  -> BLOCK_SIZE
      [] chunk = "SECTOR" -> SECTOR_SIZE
      [] OTHER -> 0

\* maxIndex of erase( chunk, id ), from what getDeviceProperties returns
maxIndexOf(props, chunk) ==
    CASE chunk = "PAGE"   -> props.numPages
      [] chunk = "BLOCK"  -> props.numBlocks
      [] chunk = "SECTOR" -> props.numSectors
      [] OTHER -> 0

\* Driver::erase( chunk, id ), and the erase( address, chunkSize ) it ends
\* with up to this->lock()
EraseChunk25(t, chunk, id) ==
    /\ CanCall(t)
    /\ LET props     == Properties25
           chunkSize == chunkSizeOf(chunk)
           maxIndex  == maxIndexOf(props, chunk)
           address   == chunkSize * id
           arg       == << address, chunkSize, chunk, id >>
       IN th' = IF chunk \notin {"PAGE", "BLOCK", "SECTOR"}
                THEN Refused(t, "eraseChunk", arg, "ERR_BAD_ARG")
                ELSE IF id >= maxIndex
                THEN Refused(t, "eraseChunk", arg, "ERR_BAD_ARG")
                ELSE IF ~validSize(chunkSize) \/ chunkSize = 0
                THEN Refused(t, "eraseChunk", arg, "ERR_BAD_ARG")
                ELSE IF ~aligned(address, chunkSize)
                THEN Refused(t, "eraseChunk", arg, "ERR_BAD_ARG")
                ELSE Begin(t, "eraseChunk", arg, "lock")
    /\ UNCHANGED << at45, sr25, xfer, now, chipBusy, lockOwner, bus, density >>

\* The AT25 chip finishes the program or erase in progress
ChipDone ==
    /\ chipBusy
    /\ chipBusy' = FALSE
    /\ UNCHANGED << at45, sr25, xfer, now, lockOwner, bus, th, density >>

\* Thread 1 makes every kind of request; thread 2 runs beside it with one
\* request of each call that sends a command.
\* Erase requests as <<address, length>>
Erase25Inputs(t) ==
    IF t = 1
    THEN { << 0, CHUNK_SIZE_4K >>, << 100, CHUNK_SIZE_4K >>, << 0, CHUNK_SIZE_32K >>,
           << CHUNK_SIZE_32K, CHUNK_SIZE_64K >>, << CHUNK_SIZE_64K, CHUNK_SIZE_64K >>,
           << 0, 0 >>, << 0, CHUNK_SIZE_256 >>,
           << 0, densityToBytes(density) >>, << 0, flashCapacityOf(density) >> }
    ELSE { << 0, CHUNK_SIZE_4K >> }

\* Ids of a chunk type: the first two, the last one and the first beyond it
ChunkIds(chunk) ==
    LET count == maxIndexOf(Properties25, chunk)
    IN {0, 1} \cup {id \in {count - 1, count} : id >= 0}

\* erase( chunk, id ) requests as <<chunk, id>>
EraseChunk25Inputs(t) ==
    IF t = 1
    THEN UNION { { << chunk, id >> : id \in ChunkIds(chunk) } : chunk \in Chunks }
    ELSE { }

\* Write requests as <<address, null pointer, length>>
Write25Inputs(t) ==
    IF t = 1
    THEN { << 0, FALSE, 10 >>, << 250, FALSE, 10 >>, << 0, FALSE, 0 >>,
           << 0, FALSE, PAGE_SIZE >>, << 0, FALSE, PAGE_SIZE + 1 >>, << 0, TRUE, 10 >> }
    ELSE { << 0, FALSE, 10 >> }

\* Timeouts of pendEvent: none, one and a half poll delays, the largest value
Timeouts == {0, 7, ClockWrap - 1}

\* pendEvent requests as <<event, timeout>>
PendInputs(t) ==
    IF t = 1
    THEN ({"MEM_ERASE_COMPLETE", "MEM_WRITE_COMPLETE"} \X Timeouts) \cup {<< "MEM_ERROR", 7 >>}
    ELSE { << "MEM_READ_COMPLETE", 7 >> }

AT45Idle ==
    /\ rev = "chimera" /\ statusZero = "OK"
    /\ pageSize = PAGE_SIZE_EXTENDED /\ blockSize = BLOCK_SIZE_EXTENDED
    /\ sectorSize = SECTOR_SIZE_DEFAULT
    /\ cmdBuffer = << 0, 0, 0, 0 >>
    /\ errorFlags = {}
    /\ clockFrequency = 0
    /\ spiInitialized = FALSE /\ chipInitialized = FALSE
    /\ initResult = "NONE"
    /\ pc = "idle" /\ locals = NoLocals /\ ret = "NONE" /\ call = NoCall
    /\ wire = << >> /\ polls = 0 /\ segs = << >>
    /\ devBinary = TRUE /\ devBusy = FALSE /\ devErr = FALSE
    /\ flash = << >> /\ rd = NoRead
    /\ calls = 0 /\ written = NoWrite
    /\ srOther = << 0, 0 >>

\* The AT25 driver after readDeviceInfo, with a chip of any density code and
\* one above the codes known; the clock is about to wrap around
Init25 ==
    /\ AT45Idle
    /\ now = ClockWrap - 3
    /\ chipBusy = FALSE
    /\ lockOwner = 0 /\ bus = << >>
    /\ th = [t \in Threads |-> NoOp]
    /\ density \in DensityCodes \cup {DENSITY_64MBIT + 1}
    /\ sr25 = << 0, 0 >>
    /\ xfer = NoXfer

Next25 ==
    \/ \E t \in Threads : \E in \in Erase25Inputs(t) : Erase25(t, in[1], in[2])
    \/ \E t \in Threads : \E in \in EraseChunk25Inputs(t) : EraseChunk25(t, in[1], in[2])
    \/ \E t \in Threads : \E in \in Write25Inputs(t) : Write25(t, in[1], in[2], in[3])
    \/ \E t \in Threads : EraseChip25(t)
    \/ \E t \in Threads : Acquire(t)
    \/ \E t \in Threads : IssueWriteEnable(t)
    \/ \E t \in Threads, spiOk \in BOOLEAN : Command25(t, spiOk)
    \/ \E t \in Threads : \E in \in PendInputs(t) : PendEvent(t, in[1], in[2])
    \/ \E t \in Threads : PollStatus(t)
    \/ \E t \in Threads : CheckTimeout(t)
    \/ \E t \in Threads, late \in 0..MaxLate : DelayPoll(t, late)
    \/ \E t \in Threads : GetDeviceProperties(t)
    \/ ChipDone

Spec25 == Init25 /\ [][Next25]_vars

\* The steps of thread t's running call.  Every thread is scheduled again
\* and again; nothing is assumed of the chip.
ThreadStep(t) ==
    \/ Acquire(t)
    \/ IssueWriteEnable(t)
    \/ \E spiOk \in BOOLEAN : Command25(t, spiOk)
    \/ PollStatus(t)
    \/ CheckTimeout(t)
    \/ \E late \in 0..MaxLate : DelayPoll(t, late)

FairSpec25 == Spec25 /\ \A t \in Threads : WF_vars(ThreadStep(t))

(***************************************************************************)
(* The SPI calls of an operation, one call at a time                       *)
(***************************************************************************)
\* A call into the lock or the SPI layer that moves no data
Call(k) == [k |-> k, cmd |-> 0, op |-> 0, part |-> "none"]

\* A transfer of one part of the logical command cmd (the cmd-th of the
\* operation), whose opcode is op
Transfer(cmd, op, part) == [k |-> "transfer", cmd |-> cmd, op |-> op, part |-> part]

\* AT45::SPI_write and AT45::SPI_read: chip select low, the bytes, and chip
\* select high when disableSS is set
SPI_write(cmd, op, part, disableSS) ==
    << Call("csLow"), Transfer(cmd, op, part) >> \o (IF disableSS THEN << Call("csHigh") >> ELSE << >>)

SPI_read(cmd, op, part, disableSS) ==
    << Call("csLow"), Transfer(cmd, op, part) >> \o (IF disableSS THEN << Call("csHigh") >> ELSE << >>)

\* The operations of the Chimera revision that send one command
TransferOps == PointerOps \cup EraseOps \cup {"sramCommit", "eraseChip", "readStatusRegister"}

\* cmdBuffer[ 0 ] of the operations OpCode does not list
OpCodeOf(op) ==
    CASE op = "sramCommit"         -> BUFFER1_TO_MAIN_MEM_PAGE_PGM_W_ERASE
      [] op = "eraseChip"          -> CHIP_ERASE_B0
      [] op = "readStatusRegister" -> STATUS_REGISTER_READ
      [] OTHER -> OpCode(op)

\* The SPI calls of an operation of the Chimera revision of the AT45 driver
at45Calls(op, isNull, unit) ==
    IF op = "readStatusRegister"
    THEN (IF ~spiInitialized THEN << >>
          ELSE SPI_write(1, OpCodeOf(op), "command", FALSE)
               \o SPI_read(1, OpCodeOf(op), "payload", TRUE))
    ELSE IF ~chipInitialized THEN << >>
    ELSE IF op \in PointerOps /\ ChecksPointer(op) /\ isNull THEN << >>
    ELSE IF op \in EraseOps /\ unit >= SectionCount(EraseOpSection(op)) THEN << >>
    ELSE IF op \in {"sramLoad", "byteWrite", "pageWrite", "readModifyWrite"}
         THEN SPI_write(1, OpCodeOf(op), "command", FALSE)
              \o SPI_write(1, OpCodeOf(op), "payload", TRUE)
    ELSE IF op \in {"sramRead", "directPageRead", "directArrayRead"}
         THEN SPI_write(1, OpCodeOf(op), "command", FALSE)
              \o SPI_read(1, OpCodeOf(op), "payload", TRUE)
    ELSE SPI_write(1, OpCodeOf(op), "command", TRUE)

\* Driver::issueWriteEnable as the cmd-th command of an operation
issueWriteEnableCalls(cmd) ==
    << Call("spiLock"), Call("csLow"), Transfer(cmd, WRITE_ENABLE, "command"),
       Call("csHigh"), Call("spiUnlock") >>

\* Driver::write without the this->unlock() before its return
writeCallsKeepLock(isNull, length) ==
    IF isNull \/ length = 0 \/ length > PAGE_SIZE THEN << >>
    ELSE << Call("lock") >> \o issueWriteEnableCalls(1)
         \o << Call("spiLock"), Call("csLow"),
               Transfer(2, PAGE_PROGRAM, "command"), Transfer(2, PAGE_PROGRAM, "payload"),
               Call("csHigh"), Call("spiUnlock") >>

\* Driver::write with chip select released between the address and the data
writeCallsTwoWindows(isNull, length) ==
    IF isNull \/ length = 0 \/ length > PAGE_SIZE THEN << >>
    ELSE << Call("lock") >> \o issueWriteEnableCalls(1)
         \o << Call("spiLock"), Call("csLow"), Transfer(2, PAGE_PROGRAM, "command"),
               Call("csHigh"), Call("csLow"), Transfer(2, PAGE_PROGRAM, "payload"),
               Call("csHigh"), Call("spiUnlock"), Call("unlock") >>

\* Driver::write
writeCalls(isNull, length) ==
    IF isNull \/ length = 0 \/ length > PAGE_SIZE THEN << >>
    ELSE << Call("lock") >> \o issueWriteEnableCalls(1)
         \o << Call("spiLock"), Call("csLow"),
               Transfer(2, PAGE_PROGRAM, "command"), Transfer(2, PAGE_PROGRAM, "payload"),
               Call("csHigh"), Call("spiUnlock"), Call("unlock") >>

\* Driver::read
readCalls(isNull, length) ==
    IF isNull \/ length = 0 THEN << >>
    ELSE << Call("lock"), Call("spiLock"), Call("csLow"),
            Transfer(1, READ_ARRAY_HS, "command"), Transfer(1, READ_ARRAY_HS, "payload"),
            Call("csHigh"), Call("spiUnlock"), Call("unlock") >>

\* Driver::erase( address, length )
eraseCalls(address, length) ==
    IF ~validSize(length) \/ length = 0 THEN << >>
    ELSE IF ~aligned(address, length) THEN << >>
    ELSE << Call("lock") >> \o issueWriteEnableCalls(1)
         \o (IF eraseOpcode(length) = 0 THEN << Call("unlock") >>
             ELSE << Call("spiLock"), Call("csLow"),
                     Transfer(2, eraseOpcode(length), "command"),
                     Call("csHigh"), Call("spiUnlock"), Call("unlock") >>)

\* Driver::eraseChip
eraseChipCalls ==
    issueWriteEnableCalls(1)
    \o << Call("spiLock"), Call("csLow"), Transfer(2, CHIP_ERASE, "command"),
          Call("csHigh"), Call("spiUnlock") >>

\* Driver::readStatusRegister; first is the number of its first command
readStatusRegisterCalls(first) ==
    << Call("lock"), Call("clear"), Call("spiLock"),
       Call("csLow"), Transfer(first, READ_SR_BYTE1, "status"), Call("csHigh"),
       Call("csLow"), Transfer(first + 1, READ_SR_BYTE2, "status"), Call("csHigh"),
       Call("spiUnlock"), Call("unlock") >>

\* Driver::readDeviceInfo
readDeviceInfoCalls ==
    << Call("lock"), Call("spiLock"), Call("csLow"), Transfer(1, READ_DEV_INFO, "command"),
       Call("csHigh"), Call("spiUnlock"), Call("unlock") >>

\* Driver::configure: mSPI is looked up under the lock, then readDeviceInfo
configureCalls(haveSPI) ==
    << Call("lock"), Call("unlock") >> \o (IF haveSPI THEN readDeviceInfoCalls ELSE << >>)

\* Driver::pendEvent: the status register is read once, and once more after
\* a delay when the first read shows the chip busy and the timeout allows
pendEventCalls(event, again) ==
    IF event \notin PendEvents THEN << >>
    ELSE readStatusRegisterCalls(1)
         \o (IF chipBusy /\ again THEN readStatusRegisterCalls(3) ELSE << >>)

\* The requests followed call by call, as <<function, SPI calls>>
Requests25 ==
    { << "write", writeCalls(in[2], in[3]) >> : in \in Write25Inputs(1) }
    \cup { << "read", readCalls(isNull, length) >> : isNull \in BOOLEAN, length \in {0, 10} }
    \cup { << "erase", eraseCalls(in[1], in[2]) >> : in \in Erase25Inputs(1) }
    \cup { << "eraseChip", eraseChipCalls >>,
           << "readStatusRegister", readStatusRegisterCalls(1) >>,
           << "readDeviceInfo", readDeviceInfoCalls >>,
           << "getDeviceProperties", << >> >> }
    \cup { << "configure", configureCalls(haveSPI) >> : haveSPI \in BOOLEAN }
    \cup { << "pendEvent", pendEventCalls(in[1], again) >> : in \in PendInputs(1), again \in BOOLEAN }

Requests45 ==
    { << op, at45Calls(op, isNull, unit) >> :
        op \in TransferOps, isNull \in BOOLEAN, unit \in {1, 4096} }

\* A public operation is called: its SPI calls are still to be made
Invoke(drv, fn, calls_) ==
    /\ xfer.todo = << >> /\ pc = "idle"
    /\ xfer' = [xfer EXCEPT !.drv = drv, !.fn = fn, !.todo = calls_, !.win = 0,
                            !.log = << >>, !.result = 0]
    /\ UNCHANGED << at45, sr25, now, chipBusy, lockOwner, bus, th, density >>

\* this->lock(), this->unlock(), mSPI->lock(), mSPI->unlock()
LockCall ==
    /\ xfer.todo # << >>
    /\ LET c == Head(xfer.todo) IN
       /\ c.k \in {"lock", "unlock", "spiLock", "spiUnlock"}
       /\ xfer' = [xfer EXCEPT !.todo = Tail(xfer.todo),
                      !.lock = CASE c.k = "lock"   -> xfer.lock + 1
                                 [] c.k = "unlock" -> xfer.lock - 1
                                 [] OTHER -> xfer.lock,
                      !.spiLock = CASE c.k = "spiLock"   -> xfer.spiLock + 1
                                    [] c.k = "spiUnlock" -> xfer.spiLock - 1
                                    [] OTHER -> xfer.spiLock]
    /\ UNCHANGED << at45, sr25, now, chipBusy, lockOwner, bus, th, density >>

\* setChipSelect( LOW ) and setChipSelect( HIGH ); a window opens when the
\* line goes from high to low
ChipSelectCall ==
    /\ xfer.todo # << >>
    /\ LET c == Head(xfer.todo) IN
       /\ c.k \in {"csLow", "csHigh"}
       /\ xfer' = [xfer EXCEPT !.todo = Tail(xfer.todo),
                      !.cs = IF c.k = "csLow" THEN "LOW" ELSE "HIGH",
                      !.win = IF c.k = "csLow" /\ xfer.cs = "HIGH" THEN xfer.win + 1
                              ELSE xfer.win]
    /\ UNCHANGED << at45, sr25, now, chipBusy, lockOwner, bus, th, density >>

\* writeBytes, readBytes, readWriteBytes: the bytes of one part of a command
\* go over the bus; a status byte is or-ed into the result
TransferCall ==
    /\ xfer.todo # << >>
    /\ LET c == Head(xfer.todo)
           n == IF c.op = READ_SR_BYTE1 THEN 1 ELSE 2
           byte == IF c.part = "status" THEN ChipStatusByte(c.op) ELSE 0
       IN
       /\ c.k = "transfer"
       /\ xfer' = [xfer EXCEPT !.todo = Tail(xfer.todo),
                      !.log = Append(xfer.log, [cmd |-> c.cmd, op |-> c.op, part |-> c.part,
                                                win |-> xfer.win, cs |-> xfer.cs,
                                                byte |-> byte]),
                      !.result = IF c.part = "status"
                                 THEN BitOr(xfer.result, Shl(byte, srShift(n)))
                                 ELSE xfer.result]
    /\ UNCHANGED << at45, sr25, now, chipBusy, lockOwner, bus, th, density >>

\* cmdBuffer.fill( 0 ); uint16_t result = 0;
ResultClear ==
    /\ xfer.todo # << >>
    /\ Head(xfer.todo).k = "clear"
    /\ xfer' = [xfer EXCEPT !.todo = Tail(xfer.todo), !.result = 0]
    /\ UNCHANGED << at45, sr25, now, chipBusy, lockOwner, bus, th, density >>

\* Values of status byte 1 without RDY/BSY, and of status byte 2
StatusBits1 == {0, 2, 128, 254}
StatusBits2 == {0, 1, 128, 255}

\* Both drivers as constructed, the AT25 chip in any state of its status
\* register; the AT45 driver is started up before the first operation followed
TransferInit ==
    /\ AT45Idle
    /\ now = 0
    /\ chipBusy \in BOOLEAN
    /\ lockOwner = 0 /\ bus = << >>
    /\ th = [t \in Threads |-> NoOp]
    /\ density = DENSITY_8MBIT
    /\ sr25 \in StatusBits1 \X StatusBits2
    /\ xfer = NoXfer

TransferNext ==
    \/ xfer.drv = "none" /\ \E spiOk, jedecOk, sameInfo \in BOOLEAN : ChimeraInit(spiOk, jedecOk, sameInfo)
    \/ xfer.drv = "none" /\ PollReady
    \/ xfer.drv = "none" /\ Delay
    \/ xfer.drv = "none" /\ UsePageSizeCheck
    \/ xfer.drv = "none" /\ DeviceComplete
    \/ \E r \in Requests25 : Invoke("AT25", r[1], r[2])
    \/ \E r \in Requests45 : Invoke("AT45", r[1], r[2])
    \/ LockCall
    \/ ChipSelectCall
    \/ TransferCall
    \/ ResultClear

TransferSpec == TransferInit /\ [][TransferNext]_vars

(***************************************************************************)
(* Specification                                                           *)
(***************************************************************************)
Init ==
    /\ rev \in {"legacy", "chimera"}
    /\ statusZero \in (IF rev = "legacy" THEN {"NEITHER"} ELSE {"OK", "FAIL", "NEITHER"})
    /\ pageSize = PAGE_SIZE_EXTENDED /\ blockSize = BLOCK_SIZE_EXTENDED
    /\ sectorSize = SECTOR_SIZE_DEFAULT
    /\ cmdBuffer = << 0, 0, 0, 0 >>
    /\ errorFlags = {}
    /\ clockFrequency = 0
    /\ spiInitialized = FALSE /\ chipInitialized = FALSE
    /\ initResult = "NONE"
    /\ pc = "idle" /\ locals = NoLocals /\ ret = "NONE" /\ call = NoCall
    /\ wire = << >> /\ polls = 0 /\ segs = << >>
    /\ devBinary \in BOOLEAN /\ devBusy = FALSE /\ devErr = FALSE
    /\ flash = << >> /\ rd = NoRead
    /\ calls = 0 /\ written = NoWrite
    /\ srOther = << 0, 0 >>
    /\ AT25Idle

Next ==
    \/ \E clock \in Clocks, spiOk, jedecOk, sameInfo \in BOOLEAN :
         LegacyInitialize(clock, spiOk, jedecOk, sameInfo)
    \/ \E binary \in BOOLEAN : LegacyUsePageSize(binary)
    \/ \E spiOk, jedecOk, sameInfo \in BOOLEAN : ChimeraInit(spiOk, jedecOk, sameInfo)
    \/ \E binary \in BOOLEAN : ChimeraUsePageSize(binary)
    \/ UsePageSizeCheck
    \/ \E in \in OpInputs : ChimeraOp(in[1], in[2], in[3], OpOffset, OpLen)
    \/ \E pageNumber \in {1, 4096}, erase \in BOOLEAN : ChimeraSramCommit(pageNumber, erase)
    \/ ChimeraEraseChip
    \/ \E in \in ChimeraWriteInputs, dataR \in BOOLEAN :
         ChimeraWrite(in[1], in[2], in[3], dataR)
    \/ \E in \in ChimeraReadInputs : ChimeraRead(in[1], in[2], in[3])
    \/ ChimeraWriteCheck
    \/ \E in \in EraseInputs :
         ChimeraErase(in[1] * pageSize + in[2], in[3] * pageSize + in[4])
    \/ \E in \in EraseInputs :
         LegacyErase(in[1] * pageSize + in[2], in[3] * pageSize + in[4])
    \/ \E in \in WriteInputs : LegacyWrite(in[1], in[2])
    \/ \E in \in ReadInputs : LegacyRead(in[1], in[2])
    \/ \E bufferNumber \in SRAMBuffers, startAddress \in BufferOffsets :
         LegacyBufferRead(bufferNumber, startAddress, OpLen)
    \/ PollReady
    \/ Delay
    \/ EraseRangesCheck
    \/ WriteCheck
    \/ DeviceComplete

Spec == Init /\ [][Next]_vars

\* The steps of the operation that is running: the driver is sequential
\* code, so the running operation keeps taking steps.  Nothing is assumed
\* of the chip.
DriverStep ==
    \/ PollReady
    \/ Delay
    \/ EraseRangesCheck
    \/ WriteCheck
    \/ UsePageSizeCheck
    \/ ChimeraWriteCheck

FairSpec == Spec /\ WF_vars(DriverStep)

\* The status functions over the status bytes a chip can return: the chip
\* starts in any state of its status register.
OtherBits1 == {0, 2, 4, 8, 16, 32, 64, 126}
OtherBits2 == {0, 1, 2, 4, 8, 16, 64, 128, 223}

StatusInit ==
    /\ rev \in {"legacy", "chimera"}
    /\ statusZero \in (IF rev = "legacy" THEN {"NEITHER"} ELSE {"OK", "FAIL", "NEITHER"})
    /\ pageSize = PAGE_SIZE_EXTENDED /\ blockSize = BLOCK_SIZE_EXTENDED
    /\ sectorSize = SECTOR_SIZE_DEFAULT
    /\ cmdBuffer = << 0, 0, 0, 0 >>
    /\ errorFlags = {}
    /\ clockFrequency = 0
    /\ spiInitialized \in (IF rev = "legacy" THEN {FALSE} ELSE BOOLEAN)
    /\ chipInitialized = FALSE
    /\ initResult = "NONE"
    /\ pc = "idle" /\ locals = NoLocals /\ ret = "NONE" /\ call = NoCall
    /\ wire = << >> /\ polls = 0 /\ segs = << >>
    /\ devBinary \in BOOLEAN /\ devBusy \in BOOLEAN /\ devErr \in BOOLEAN
    /\ flash = << >> /\ rd = NoRead
    /\ calls = 0 /\ written = NoWrite
    /\ srOther \in OtherBits1 \X OtherBits2
    /\ AT25Idle

StatusNext ==
    \/ \E fn \in StatusFns : StatusQuery(fn)
    \/ DeviceComplete

StatusSpec == StatusInit /\ [][StatusNext]_vars

\* The address builder in both page-size modes: the driver as constructed
\* (264-byte pages) or as useBinaryPageSize leaves it (256-byte pages)
AddressInit ==
    /\ rev \in {"legacy", "chimera"}
    /\ statusZero \in (IF rev = "legacy" THEN {"NEITHER"} ELSE {"OK", "FAIL", "NEITHER"})
    /\ \E binary \in BOOLEAN :
         /\ devBinary = binary
         /\ pageSize   = (IF binary THEN PAGE_SIZE_BINARY ELSE PAGE_SIZE_EXTENDED)
         /\ blockSize  = (IF binary THEN BLOCK_SIZE_BINARY ELSE BLOCK_SIZE_EXTENDED)
         /\ sectorSize = (IF binary THEN SECTOR_SIZE_BINARY ELSE SECTOR_SIZE_DEFAULT)
         /\ cmdBuffer  = (IF binary THEN StatusCmd(CfgCommand(TRUE)) ELSE << 0, 0, 0, 0 >>)
         /\ spiInitialized = (binary /\ rev = "chimera")
    /\ errorFlags = {}
    /\ clockFrequency = 0
    /\ chipInitialized = FALSE
    /\ initResult = "NONE"
    /\ pc = "idle" /\ locals = NoLocals /\ ret = "NONE" /\ call = NoCall
    /\ wire = << >> /\ polls = 0 /\ segs = << >>
    /\ devBusy = FALSE /\ devErr = FALSE
    /\ flash = << >> /\ rd = NoRead
    /\ calls = 0 /\ written = NoWrite
    /\ srOther = << 0, 0 >>
    /\ AT25Idle

AddressNext ==
    \E pageNumber \in AddrPages, offset \in AddrOffsets :
        BuildReadWriteCommand(pageNumber, offset)

AddressSpec == AddressInit /\ [][AddressNext]_vars

(***************************************************************************)
(* Properties                                                              *)
(***************************************************************************)
\* Driver and chip agree on the geometry and the last start-up succeeded
Configured ==
    /\ initResult = "FLASH_OK"
    /\ pageSize = DevPageSize
    /\ blockSize = 8 * pageSize
    /\ sectorSize = 256 * pageSize

InsideDevice(address, len) == len > 0 /\ address + len <= NumPages * pageSize

Returned(fn, status) == pc = "idle" /\ call.fn = fn /\ ret = status

\* The chip was ready for every frame of the most recent operation
WireTaken == \A k \in 1..Len(wire) : ~wire[k].busy

RECURSIVE SumLen(_)
SumLen(ext) == IF ext = << >> THEN 0 ELSE Head(ext).len + SumLen(Tail(ext))

ExtWithin(ext, lo, len) ==
    \A k \in 1..Len(ext) : ext[k].lo >= lo /\ ext[k].lo + ext[k].len <= lo + len

ExtDisjoint(ext) ==
    \A j, k \in 1..Len(ext) :
        j < k => \/ ext[j].lo + ext[j].len <= ext[k].lo
                 \/ ext[k].lo + ext[k].len <= ext[j].lo

Tiles(ext, lo, len) == ExtWithin(ext, lo, len) /\ ExtDisjoint(ext) /\ SumLen(ext) = len

LargestFirst(ext) == \A j, k \in 1..Len(ext) : j < k => ext[j].len >= ext[k].len

\* First byte of the array a write segment addresses
SegLo(seg) == seg.page * pageSize + seg.offset

\* Content of array byte a: the index into the written data, -1 when erased,
\* -2 when the byte still holds what it held before the operation.
DataAt(a) ==
    LET hits == { k \in 1..Len(flash) : flash[k].lo <= a /\ a < flash[k].lo + flash[k].len } IN
    IF hits = {} THEN -2
    ELSE LET e == flash[SetMax(hits)] IN IF e.src = -1 THEN -1 ELSE e.src + (a - e.lo)

\* C1: for a page-aligned (address, length) inside the device, the erase
\* commands of a successful erase erase every byte of [address, address+length)
\* exactly once, erase nothing outside it, and go from larger to smaller units.
C1_EraseTilesRange ==
    ( /\ Configured
      /\ Returned("erase", "FLASH_OK")
      /\ WireTaken
      /\ call.address % pageSize = 0 /\ call.len % pageSize = 0
      /\ InsideDevice(call.address, call.len) )
    => Tiles(flash, call.address, call.len) /\ LargestFirst(flash)

\* C2: for (address, length) inside the device, the segments of a successful
\* write start at address, follow one another without gap or overlap in
\* increasing address order and end at address+length (so their lengths sum
\* to length).
C2_WriteSegmentsTile ==
    ( /\ Configured
      /\ Returned("write", "FLASH_OK")
      /\ InsideDevice(call.address, call.len) )
    => /\ Len(segs) >= 1
       /\ SegLo(segs[1]) = call.address
       /\ \A k \in 1..(Len(segs) - 1) : SegLo(segs[k]) + segs[k].len = SegLo(segs[k + 1])
       /\ SegLo(segs[Len(segs)]) + segs[Len(segs)].len = call.address + call.len
       /\ SumLen(segs) = call.len

\* The four shapes of request the round trip is stated for
RoundTripCase(address, len) ==
    LET first == address \div pageSize
        last  == (address + len - 1) \div pageSize
    IN \/ first = last
       \/ last = first + 1
       \/ len >= 2 * pageSize
       \/ address \div sectorSize # (address + len - 1) \div sectorSize

\* C3: on an initialised device, a read of (addr, len) that follows a
\* successful write of data to (addr, len) returns exactly data.
C3_WriteReadRoundTrip ==
    ( /\ Configured
      /\ Returned("read", "FLASH_OK")
      /\ written = [address |-> call.address, len |-> call.len]
      /\ Len(flash) = Len(segs)
      /\ InsideDevice(call.address, call.len)
      /\ RoundTripCase(call.address, call.len) )
    => \A k \in 0..(call.len - 1) : DataAt(rd.addr + k) = k

C5_TwoFullPages ==
    ( /\ Configured
      /\ Returned("write", "FLASH_OK")
      /\ call.len = 2 * pageSize /\ call.address % pageSize = 0
      /\ InsideDevice(call.address, call.len) )
    => /\ Len(segs) = 2
       /\ \A k \in 1..Len(segs) : segs[k].kind = "page" /\ segs[k].len = pageSize

\* The most recent start-up of either revision succeeded
Initialised == IF rev = "legacy" THEN initResult = "FLASH_OK" ELSE chipInitialized

Success == {"FLASH_OK", "OK"}

\* C6: on an initialised device, erase(address, len) with address or len not
\* a multiple of pageSize returns an error other than NOT_INITIALIZED and
\* makes no transfer.
C6_UnalignedEraseRejected ==
    ( /\ Initialised
      /\ pc = "idle" /\ call.fn = "erase"
      /\ (call.address % pageSize # 0 \/ call.len % pageSize # 0) )
    => ret \notin Success \cup {"NOT_INITIALIZED", "NONE"} /\ wire = << >>

\* The data operations of the Chimera revision and those that take a pointer
DataOps == {"sramLoad", "sramRead", "sramCommit", "directPageRead", "directArrayRead",
            "byteWrite", "pageWrite", "readModifyWrite", "erasePage", "eraseBlock",
            "eraseSector", "eraseChip", "write", "read"}
TakesPointer == {"sramLoad", "sramRead", "directPageRead", "directArrayRead",
                 "byteWrite", "pageWrite", "readModifyWrite", "write", "read"}

\* A step that calls one of the data operations of the Chimera revision
DataOpCalled ==
    /\ rev = "chimera" /\ pc = "idle"
    /\ call'.fn \in DataOps
    /\ (calls' # calls \/ call'.fn = "read")

\* C7: in the Chimera revision every data operation returns NOT_INITIALIZED
\* when the most recent init() did not return OK, else INVAL_FUNC_PARAM when
\* its data pointer is null; in both cases it transfers nothing and leaves
\* the command buffer as it was.
C7_InitAndNullChecks ==
    [][ DataOpCalled =>
          /\ initResult # "OK" =>
               ret' = "NOT_INITIALIZED" /\ wire' = << >> /\ cmdBuffer' = cmdBuffer
          /\ (initResult = "OK" /\ call'.fn \in TakesPointer /\ call'.null) =>
               ret' = "INVAL_FUNC_PARAM" /\ wire' = << >> /\ cmdBuffer' = cmdBuffer
      ]_vars

\* readModifyWrite called with a null pointer after a successful init
C7_Witness ==
    /\ rev = "chimera" /\ initResult = "OK" /\ cmdBuffer[1] = STATUS_REGISTER_READ
    /\ Returned("readModifyWrite", "INVAL_FUNC_PARAM")
    /\ call.null /\ wire = << >>

\* address + len as unbounded integers is greater than cap
SumExceeds(address, len, cap) ==
    LET lo == address.lo + len.lo
        hi == address.hi + len.hi + lo \div 65536
    IN hi > cap \div 65536 \/ (hi = cap \div 65536 /\ lo % 65536 > cap % 65536)

\* The most recent request reaches past the end of the array
RequestExceeds ==
    IF call.fn = "erase" THEN call.address + call.len > FLASH_CAPACITY_8MBIT
    ELSE SumExceeds(call.address, call.len, FLASH_CAPACITY_8MBIT)

\* C8: on an initialised driver write, read and erase return OVERRUN exactly
\* when address + len, as unbounded integers, exceeds the capacity, and then
\* transfer nothing; a request with address + len <= capacity is never
\* answered with OVERRUN.
C8_OverrunExact ==
    ( /\ rev = "chimera" /\ chipInitialized
      /\ call.fn \in {"write", "read", "erase"}
      /\ call.fn \in {"write", "read"} => ~call.null )
    => IF RequestExceeds
       THEN wire = << >> /\ (pc = "idle" => ret = "OVERRUN")
       ELSE ret # "OVERRUN"

\* C9: no erase command is transmitted for a page, block or sector index
\* outside the chip geometry: erasePage/eraseBlock/eraseSector answer such an
\* index with INVAL_FUNC_PARAM and no transfer, and no erase(address, len)
\* request inside the device leads to a command for such an index.
C9_NoEraseOutOfRange ==
    /\ ( /\ pc = "idle" /\ call.fn \in EraseOps /\ chipInitialized
         /\ call.unit >= SectionCount(EraseOpSection(call.fn)) )
       => ret = "INVAL_FUNC_PARAM" /\ wire = << >>
    /\ ( /\ Configured /\ call.fn = "erase" /\ InsideDevice(call.address, call.len)
         /\ pc = "wait" /\ locals.fn = "eraseRanges" )
       => locals.i < SectionCount(eraseRangesCall(locals.stage).section)

\* C10: every wait-for-ready loop that follows an erase or program command
\* ends: when the chip never reports ready the operation stops polling and
\* returns.
C10_WaitLoopsEnd == (pc = "wait" /\ call.fn \in {"erase", "write"}) ~> (pc = "idle")

(***************************************************************************)
(* Multi-step operations: error checks and partial results                 *)
(***************************************************************************)
\* A multi-unit erase or multi-segment write has just left a wait loop
AfterWaitLoop == pc = "check" /\ locals.fn \in {"eraseRanges", "write", "cwrite"}

\* The status register shows the erase/program error bit
ErrorBitShown == devErr /\ ~devBusy

\* C12: in a multi-unit erase or multi-segment write every wait loop is
\* followed by a check of the erase/program error bit: when the chip shows
\* the error bit after a unit or segment, the driver's next step sends no
\* further command and the operation returns a failure.
C12_ErrorStopsOperation ==
    [][ (AfterWaitLoop /\ ErrorBitShown)
        => (wire' = wire /\ pc' = "idle" /\ ret' \notin Success \cup {"NONE"}) ]_vars

\* The status a write or erase returns when the chip reports an error
FailureOf(fn) ==
    IF fn = "write"
    THEN (IF rev = "legacy" THEN "ERROR_WRITE_FAILURE" ELSE "FAILED_WRITE")
    ELSE "ERROR_ERASE_FAILURE"

\* A write or erase has returned because the chip reported an error
FailedOnChip ==
    /\ pc = "idle" /\ call.fn \in {"write", "erase"}
    /\ ret = FailureOf(call.fn)

\* Segments (write) or units (erase) handed to the chip before the return
UnitsSent == IF call.fn = "write" THEN Len(segs) ELSE Len(wire)

\* What the caller of the failed operation receives: the returned value only
\* (write and erase have no output argument)
Result == ret

\* C13: when a multi-segment write or multi-unit erase fails part-way the
\* returned result identifies the prefix that completed: a failure after one
\* or more completed units returns a result different from the one returned
\* when the very first unit fails.
C13_FailureReportsPrefix ==
    (Configured /\ WireTaken /\ FailedOnChip /\ UnitsSent > 1) => Result # FailureOf(call.fn)

\* The value C13 compares against is the one a first-unit failure returns
C13_FirstUnitFailure ==
    (pc = "idle" /\ call.fn \in {"write", "erase"} /\ UnitsSent = 1 /\ ErrorBitShown
       /\ ret \notin Success)
    => ret = FailureOf(call.fn)

(***************************************************************************)
(* Status register decoding                                                *)
(***************************************************************************)
\* A step that is a call of one of the status functions
StatusCalled == call'.fn \in StatusFns /\ devBusy' = devBusy /\ call' # NoCall

ReportsReady == IF rev = "legacy" THEN ret = TRUE ELSE ret = "OK"
ReportsError == IF rev = "legacy" THEN ret = TRUE ELSE ret = "FAIL"

\* Bit n of a byte
ByteBit(b, n) == (b \div (2 ^ n)) % 2 = 1

\* C15: readStatusRegister returns (first byte read << 8) | second byte
\* read; isDeviceReady reports ready exactly when bit 15 of that value (bit 7
\* of the first byte) is set and isErasePgmError reports an error exactly
\* when bit 5 (bit 5 of the second byte) is set; the bytes 0x80, 0x00 decode
\* to ready with no error.  Stated for calls that read the register.
C15_StatusDecode ==
    [][ (StatusCalled /\ StatusReads) =>
        LET b1 == DevStatusBytes[1]
            b2 == DevStatusBytes[2]
        IN /\ call'.fn = "readStatusRegister" => ret' = b1 * 256 + b2
           /\ call'.fn = "isDeviceReady" => (ReportsReady' <=> ByteBit(b1, 7))
           /\ call'.fn = "isErasePgmError" => (ReportsError' <=> ByteBit(b2, 5))
           /\ (b1 = 128 /\ b2 = 0) =>
                 /\ call'.fn = "isDeviceReady" => ReportsReady'
                 /\ call'.fn = "isErasePgmError" => ~ReportsError' ]_vars

\* The bytes 0x80, 0x00 were read and decoded as ready
C15_Witness ==
    /\ pc = "idle" /\ call.fn = "isDeviceReady" /\ StatusReads
    /\ DevStatusBytes = << 128, 0 >>
    /\ ReportsReady

(***************************************************************************)
(* Sector erase                                                            *)
(***************************************************************************)
\* Every byte of [lo, lo + len) lies in an extent of ext all of whose bytes
\* are erased
ErasedAll(ext, lo, len) ==
    LET er  == { k \in 1..Len(ext) : ext[k].src = -1 }
        in(a) == \E k \in er : ext[k].lo <= a /\ a < ext[k].lo + ext[k].len
        ends == { ext[k].lo + ext[k].len : k \in er }
    IN /\ \A k \in 1..Len(ext) : ext[k].src = -1
       /\ in(lo)
       /\ \A a \in ends : (lo <= a /\ a < lo + len) => in(a)

\* C16: for every sector index n in range, n = 0 included, a successful
\* erase of sectorSize bytes at n * sectorSize sends exactly one command, a
\* sector erase, after which every byte of the sector is erased and the
\* erase/program error bit is clear.
C16_SectorEraseWhole ==
    \A n \in 0..(NumSectors - 1) :
        ( /\ Configured /\ WireTaken
          /\ Returned("erase", "FLASH_OK")
          /\ call.address = n * sectorSize /\ call.len = sectorSize )
        => /\ Len(wire) = 1 /\ wire[1].op = SECTOR_ERASE
           /\ ErasedAll(flash, call.address, call.len)
           /\ ~devErr

(***************************************************************************)
(* Start-up of the Chimera revision                                        *)
(***************************************************************************)
\* isInitialized()
isInitialized == chipInitialized

InitFailures == {"FAILED_INIT", "UNKNOWN_JEDEC", "HF_INIT_FAIL"}

\* C19: while no call runs, isInitialized() is true exactly when the most
\* recent init() returned OK.  init returns FAILED_INIT when the SPI layer
\* fails to initialise, UNKNOWN_JEDEC when the low-speed device information
\* lacks the manufacturer id, HF_INIT_FAIL when the full-speed read differs
\* from the low-speed one, and after each of them the driver is
\* uninitialised.
C19_InitializedIffInitOk ==
    /\ [](( rev = "chimera" /\ pc = "idle" ) => ( isInitialized <=> initResult = "OK" ))
    /\ [][ \A spiOk, jedecOk, sameInfo \in BOOLEAN :
             ChimeraInit(spiOk, jedecOk, sameInfo) =>
               /\ ~spiOk => ret' = "FAILED_INIT"
               /\ (spiOk /\ ~jedecOk) => ret' = "UNKNOWN_JEDEC"
               /\ (spiOk /\ jedecOk /\ ~sameInfo) => ret' = "HF_INIT_FAIL"
               /\ ret' \in InitFailures => ~isInitialized' ]_vars

\* An init that fails after an earlier init had succeeded
C19_Witness ==
    /\ rev = "chimera" /\ pc = "idle" /\ call.fn = "init"
    /\ ret = "HF_INIT_FAIL" /\ ~isInitialized
    /\ pageSize = PAGE_SIZE_BINARY

(***************************************************************************)
(* AT25 erase                                                              *)
(***************************************************************************)
\* Thread t starts the call fn in this step
Calls(t, fn) == th[t].pc = "idle" /\ th'[t].fn = fn /\ th'[t].n = th[t].n + 1

\* A request erase(address, length) must refuse
BadEraseRequest(arg) ==
    ~( arg[2] \in {4096, 32768, 65536} /\ arg[1] % arg[2] = 0 )

\* C17: unless length is 4 KiB, 32 KiB or 64 KiB and address % length = 0,
\* erase(address, length) returns ERR_BAD_ARG at once and sends nothing: no
\* write-enable, no erase opcode, and the driver's lock is not taken.
C17_BadEraseSendsNothing ==
    /\ [][ \A t \in Threads :
             (Calls(t, "erase") /\ BadEraseRequest(th'[t].arg))
             => /\ th'[t].pc = "idle" /\ th'[t].ret = "ERR_BAD_ARG"
                /\ bus' = bus /\ lockOwner' = lockOwner ]_vars
    /\ [](\A t \in Threads :
             (th[t].fn = "erase" /\ BadEraseRequest(th[t].arg))
             => (th[t].pc = "idle" /\ th[t].ret = "ERR_BAD_ARG" /\ lockOwner # t))

\* A misaligned erase of a supported size was refused with nothing sent
C17_Witness ==
    /\ th[1].fn = "erase" /\ th[1].arg = << 100, 4096 >>
    /\ th[1].ret = "ERR_BAD_ARG" /\ th[1].pc = "idle"
    /\ bus = << >> /\ lockOwner = 0

\* Thread t puts a frame with opcode op on the bus in this step
Sends(t, op) ==
    /\ Len(bus') = Len(bus) + 1
    /\ bus'[Len(bus')].t = t /\ bus'[Len(bus')].op = op

TrueCapacity(code) == (2 ^ (code - 2)) * 131072

\* C20: the capacity derived from a density code is the true size of the
\* device (1,048,576 bytes for the 8-Mbit code), Adesto::densityToBytes and
\* AT45::getFlashCapacity agree on every density code both know, and the
\* page, block and sector counts getDeviceProperties reports cover the whole
\* device.
C20_CapacityIsTrueSize ==
    \A t \in Threads :
        LET p == th[t].props IN
        (th[t].fn = "getDeviceProperties" /\ density \in DensityCodes)
        => ( /\ p.endAddress = TrueCapacity(density)
             /\ (density = 5 => p.endAddress = 1048576)
             /\ densityToBytes(density) = flashCapacityOf(density)
             /\ p.numPages * p.pageSize = TrueCapacity(density)
             /\ p.numBlocks * p.blockSize = TrueCapacity(density)
             /\ p.numSectors * p.sectorSize = TrueCapacity(density) )

\* AT45::getFlashCapacity alone gives the true size for every density code
C20_FlashCapacityTrue ==
    \A t \in Threads :
        (th[t].fn = "getDeviceProperties" /\ density \in DensityCodes)
        => flashCapacityOf(density) = TrueCapacity(density)

(***************************************************************************)
(* Two threads on one AT25 driver                                          *)
(***************************************************************************)
\* Thread t is inside the multi-step part of a call: between the point where
\* the write-enable is due and the return
InFlight(t) == th[t].pc \in {"enable", "command"}

\* C14: with two threads calling the same driver only one logical operation
\* is in flight at a time, and the driver keeps exclusive ownership over a
\* write-enable together with the program or erase command it enables: the
\* frame that follows a write-enable on the bus comes from the same thread.
C14_ExclusiveOwnership ==
    /\ \A t1, t2 \in Threads : (InFlight(t1) /\ InFlight(t2)) => t1 = t2
    /\ \A k \in 1..(Len(bus) - 1) : bus[k].op = 6 => bus[k + 1].t = bus[k].t

\* The same for the calls that take the driver's lock, erase and write
C14_LockedCallsExclusive ==
    /\ \A t1, t2 \in Threads :
         ( /\ InFlight(t1) /\ th[t1].fn \in {"erase", "write"}
           /\ InFlight(t2) /\ th[t2].fn \in {"erase", "write"} ) => t1 = t2
    /\ \A t \in Threads :
         (InFlight(t) /\ th[t].fn \in {"erase", "write"}) => lockOwner = t

(***************************************************************************)
(* pendEvent                                                               *)
(***************************************************************************)
\* Thread t is inside pendEvent
Pending(t) == th[t].fn = "pendEvent" /\ th[t].pc # "idle"

\* Milliseconds since thread t's pendEvent took its start time
SinceStart(t) == (now + ClockWrap - th[t].start) % ClockWrap

\* The timeout thread t passed to pendEvent
TimeoutOf(t) == th[t].arg[2]

\* The last status read of thread t showed the busy bit
SawBusy(t) == th[t].polls >= 1 /\ th[t].sr % 2 = 1

\* pendEvent returns ERR_OK only after a status read with the busy bit
\* clear, ERR_TIMEOUT only after a status read with the busy bit set and
\* more than timeout milliseconds since its start, and once its test has
\* found the timeout exceeded it returns without another status read.
PendEventResults ==
    /\ [](\A t \in Threads :
            (th[t].fn = "pendEvent" /\ th[t].pc = "idle" /\ th[t].ret = "ERR_OK")
            => (th[t].polls >= 1 /\ th[t].sr % 2 = 0))
    /\ [][ \A t \in Threads :
             (Pending(t) /\ th'[t].ret = "ERR_TIMEOUT")
             => (SawBusy(t) /\ SinceStart(t) > TimeoutOf(t)) ]_vars
    /\ [][ \A t \in Threads :
             (Pending(t) /\ th[t].pc = "timeout" /\ SinceStart(t) > TimeoutOf(t))
             => \/ th'[t] = th[t]
                \/ th'[t].pc = "idle" /\ th'[t].ret = "ERR_TIMEOUT" /\ th'[t].polls = th[t].polls
           ]_vars

\* The largest timeout that a poll loop cannot step over: one poll delay,
\* late or not, below the largest value of the clock
SureTimeout == ClockWrap - 1 - (TIMEOUT_5MS + MaxLate)

RECURSIVE CountOp(_, _)
CountOp(w, op) ==
    IF w = << >> THEN 0
    ELSE (IF Head(w).op = op THEN 1 ELSE 0) + CountOp(Tail(w), op)

\* The sector, block and page counts the request's length divides into
PlanCounts(len) ==
    [sectors |-> len \div sectorSize,
     blocks  |-> (len % sectorSize) \div blockSize,
     pages   |-> ((len % sectorSize) % blockSize) \div pageSize]

\* A page-aligned erase request has run through eraseRanges to its return
ErasePlanned ==
    /\ rev = "legacy" /\ Returned("erase", "FLASH_OK")
    /\ call.len > 0 /\ call.address % pageSize = 0 /\ call.len % pageSize = 0

\* C21: for a page-aligned erase of length L, eraseRanges sends exactly
\* L div sectorSize sector erases, then exactly (L mod sectorSize) div
\* blockSize block erases, then one erase for each remaining page, in that
\* order: no sector erase when L < sectorSize, no block erase when what the
\* sectors leave is below blockSize.
C21_EraseCounts ==
    ErasePlanned =>
        LET n == PlanCounts(call.len) IN
        /\ Len(wire) = n.sectors + n.blocks + n.pages
        /\ CountOp(wire, SECTOR_ERASE) = n.sectors
        /\ CountOp(wire, BLOCK_ERASE) = n.blocks
        /\ \A k \in 1..Len(wire) :
             /\ k <= n.sectors => wire[k].op = SECTOR_ERASE
             /\ (n.sectors < k /\ k <= n.sectors + n.blocks) => wire[k].op = BLOCK_ERASE

\* The part of the order the code keeps: the sector erases of a request come
\* before every other erase command it sends.
C21_SectorsFirst ==
    ErasePlanned =>
        \A j, k \in 1..Len(wire) :
            (j < k /\ wire[k].op = SECTOR_ERASE) => wire[j].op = SECTOR_ERASE

\* eraseRanges has sent the command for a page the planner left over after
\* the sectors and blocks of the request
ResidualPageSent ==
    /\ pc = "wait" /\ locals.fn = "eraseRanges" /\ locals.stage = "page"
    /\ call.fn = "erase" /\ PlanCounts(call.len).pages > 0
    /\ wire # << >>

\* C22: each page an erase request leaves over after its sectors and blocks
\* is erased with the page-erase command addressed to that page's index: the
\* command erases that one page and nothing else.
C22_ResidualPageErase ==
    (Configured /\ ResidualPageSent /\ WireTaken) =>
        LET f == wire[Len(wire)] IN
        /\ f.op = PAGE_ERASE
        /\ DevEraseExtent(f) = [lo |-> locals.i * pageSize, len |-> pageSize]

(***************************************************************************)
(* Address bytes of read and write commands                                *)
(***************************************************************************)
\* Offset bits of the page-size mode the driver is in
OffsetBits == IF pageSize = PAGE_SIZE_BINARY THEN 8 ELSE 9

\* buildReadWriteCommand has run for a page and an offset of the geometry
AddressBuilt ==
    /\ call.fn = "buildReadWriteCommand"
    /\ call.unit < NumPages /\ call.offset < pageSize

\* C23: buildReadWriteCommand(page, offset) puts (page << offsetBits) | offset
\* into command bytes 1..3, most significant byte first, with offsetBits 8
\* in binary mode and 9 in extended mode; for page < numPages and
\* offset < pageSize masking loses no bit, so that distinct (page, offset)
\* pairs give distinct address bytes.
C23_AddressBytes ==
    AddressBuilt =>
        LET v == BitOr(Shl(call.unit, OffsetBits), call.offset) IN
        /\ cmdBuffer[2] = Shr(v, 16)
        /\ cmdBuffer[3] = Shr(v, 8) % 256
        /\ cmdBuffer[4] = v % 256
        /\ Shr(v, OffsetBits) = call.unit /\ LowBits(v, OffsetBits) = call.offset
        /\ \A p \in AddrPages, o \in AddrOffsets :
             ( /\ p < NumPages /\ o < pageSize
               /\ buildReadWriteCommand(p, o) = << cmdBuffer[2], cmdBuffer[3], cmdBuffer[4] >> )
             => (p = call.unit /\ o = call.offset)

\* The last offset of the last page in extended mode: bit 8 of the offset is used
C23_Witness ==
    /\ AddressBuilt
    /\ pageSize = PAGE_SIZE_EXTENDED /\ call.unit = NumPages - 1 /\ call.offset = 263
    /\ cmdBuffer[2] = 31 /\ cmdBuffer[3] = 255 /\ cmdBuffer[4] = 7

(***************************************************************************)
(* AT25 status register, chip select windows and locks                     *)
(***************************************************************************)
\* The operation fn of driver drv has made all its SPI calls and returned
Done(drv, fn) == xfer.drv = drv /\ xfer.fn = fn /\ xfer.todo = << >>

\* readStatusRegister of the AT25 driver has returned after its two reads
StatusRead25 ==
    /\ Done("AT25", "readStatusRegister")
    /\ Len(xfer.log) = 2
    /\ xfer.log[1].part = "status" /\ xfer.log[2].part = "status"
    /\ xfer.log[1].op # xfer.log[2].op

\* C24 as stated: readStatusRegister makes two one-byte reads with distinct
\* opcodes and returns the byte read first in bits 15..8 and the byte read
\* second in bits 7..0 of its result.
C24_FirstByteHigh ==
    Done("AT25", "readStatusRegister") =>
        /\ StatusRead25
        /\ Shr(xfer.result, 8) = xfer.log[1].byte
        /\ xfer.result % 256 = xfer.log[2].byte

\* C24: readStatusRegister makes two one-byte reads with distinct opcodes,
\* READ_SR_BYTE1 then READ_SR_BYTE2, and returns the byte read first in bits
\* 7..0 and the byte read second in bits 15..8 of its result.
C24_FirstByteLow ==
    Done("AT25", "readStatusRegister") =>
        /\ StatusRead25
        /\ xfer.log[1].op = READ_SR_BYTE1 /\ xfer.log[2].op = READ_SR_BYTE2
        /\ xfer.result % 256 = xfer.log[1].byte
        /\ Shr(xfer.result, 8) = xfer.log[2].byte

\* A busy chip with every other bit of byte 1 set and only bit 0 of byte 2
C24_Witness ==
    /\ StatusRead25
    /\ xfer.log[1].byte = 255 /\ xfer.log[2].byte = 1
    /\ xfer.result = 511

\* C25: every logical command (opcode, address, dummy bytes and payload) is
\* transferred inside one window of asserted chip select, and chip select is
\* deasserted whenever a public operation returns, on every path.
C25_OneWindowPerCommand ==
    /\ \A k \in 1..Len(xfer.log) : xfer.log[k].cs = "LOW"
    /\ \A j, k \in 1..Len(xfer.log) :
         (xfer.log[j].cmd = xfer.log[k].cmd) <=> (xfer.log[j].win = xfer.log[k].win)
    /\ xfer.todo = << >> => xfer.cs = "HIGH"

\* write of the AT25 driver has returned: write enable in one window, the
\* page program command with its data in the next
C25_Witness ==
    /\ Done("AT25", "write")
    /\ Len(xfer.log) = 3 /\ xfer.cs = "HIGH"
    /\ xfer.log[2].part = "command" /\ xfer.log[3].part = "payload"
    /\ xfer.log[2].win = 2 /\ xfer.log[3].win = 2

\* C28: every public operation of the AT25 driver releases, on every return
\* path, exactly the driver-lock and SPI-lock acquisitions it made: it never
\* releases a lock it does not hold, and when it returns the calling thread
\* holds no lock that it did not hold before the call.
C28_LocksReleased ==
    /\ xfer.lock >= 0 /\ xfer.spiLock >= 0
    /\ (xfer.drv = "AT25" /\ xfer.todo = << >>) => (xfer.lock = 0 /\ xfer.spiLock = 0)

\* erase has returned after its command, and write after refusing its arguments
C28_Witness ==
    /\ Done("AT25", "erase")
    /\ Len(xfer.log) = 2 /\ xfer.log[2].op = BLOCK_ERASE_4K
    /\ xfer.lock = 0 /\ xfer.spiLock = 0

(***************************************************************************)
(* The geometry the driver keeps                                           *)
(***************************************************************************)
GeometryTriples ==
    { << PAGE_SIZE_BINARY, BLOCK_SIZE_BINARY, SECTOR_SIZE_BINARY >>,
      << PAGE_SIZE_EXTENDED, BLOCK_SIZE_EXTENDED, SECTOR_SIZE_EXTENDED >> }

\* C26: between calls, from construction on, (pageSize, blockSize,
\* sectorSize) is (256, 2048, 65536) or (264, 2112, 67584), so that
\* blockSize = 8 * pageSize and sectorSize = 256 * pageSize.
C26_GeometryTriple ==
    pc = "idle" =>
        /\ << pageSize, blockSize, sectorSize >> \in GeometryTriples
        /\ blockSize = 8 * pageSize
        /\ sectorSize = 256 * pageSize

\* The part of C26 the code keeps: the page and block sizes always belong
\* together, and once a page size call has returned the sector size too.
C26_PageAndBlock ==
    /\ << pageSize, blockSize >> \in
           { << PAGE_SIZE_BINARY, BLOCK_SIZE_BINARY >>,
             << PAGE_SIZE_EXTENDED, BLOCK_SIZE_EXTENDED >> }
    /\ sectorSize \in {SECTOR_SIZE_DEFAULT, SECTOR_SIZE_BINARY, SECTOR_SIZE_EXTENDED}

(***************************************************************************)
(* AT25: a page program stays inside its page                              *)
(***************************************************************************)
\* The request write(address, data, length) ends beyond the page it starts in
WrapsPage(arg) == (arg[1] % PAGE_SIZE) + arg[2] > PAGE_SIZE

\* C27: a write with (address mod 256) + length > 256 is refused with
\* ERR_BAD_ARG before any I/O: it never gets as far as the driver's lock,
\* the write enable or the page program command.
C27_NoPageWrap ==
    \A t \in Threads :
        th[t].fn = "write" /\ WrapsPage(th[t].arg) =>
            th[t].pc = "idle" /\ th[t].ret = "ERR_BAD_ARG"

\* The part of C27 the code keeps: no accepted write is longer than a page
C27_AtMostAPage ==
    \A t \in Threads :
        th[t].fn = "write" /\ th[t].arg[2] > PAGE_SIZE =>
            th[t].pc = "idle" /\ th[t].ret = "ERR_BAD_ARG"

(***************************************************************************)
(* AT25: erase by chunk type and id                                        *)
(***************************************************************************)
\* Bytes an AT25 erase opcode erases; 0 for an opcode that is no block erase
ErasedBy(op) ==
    CASE op = BLOCK_ERASE_4K  -> CHUNK_SIZE_4K
      [] op = BLOCK_ERASE_32K -> CHUNK_SIZE_32K
      [] op = BLOCK_ERASE_64K -> CHUNK_SIZE_64K
      [] OTHER -> 0

\* The frames thread t put on the bus, the write enable aside
CommandsOf(t) == { k \in 1..Len(bus) : bus[k].t = t /\ bus[k].op # WRITE_ENABLE }

\* Thread t's erase( chunk, id ) has returned
ChunkEraseDone(t) == th[t].fn = "eraseChunk" /\ th[t].pc = "idle"

\* The id of thread t's erase( chunk, id ) is below the unit count that
\* getDeviceProperties reports for the chunk type
IdInRange(t) ==
    /\ th[t].arg[3] \in {"PAGE", "BLOCK", "SECTOR"}
    /\ th[t].arg[4] < maxIndexOf(Properties25, th[t].arg[3])

\* Thread t sent one erase command, for [id * chunkSize, (id+1) * chunkSize)
OneEraseOfChunk(t) ==
    /\ Cardinality(CommandsOf(t)) = 1
    /\ \A k \in CommandsOf(t) :
          /\ bus[k].address = th[t].arg[4] * chunkSizeOf(th[t].arg[3])
          /\ ErasedBy(bus[k].op) = chunkSizeOf(th[t].arg[3])

\* C29: erase( chunk, id ) with an id below the unit count of the chunk type
\* sends exactly one erase command for the bytes of that unit and returns
\* ERR_OK (ERR_DRIVER_ERR when the SPI transfer failed); with an id at or
\* above the count it returns ERR_BAD_ARG and sends nothing.
C29_EraseByChunk ==
    \A t \in Threads :
        ChunkEraseDone(t) =>
            IF IdInRange(t)
            THEN th[t].ret \in {"ERR_OK", "ERR_DRIVER_ERR"} /\ OneEraseOfChunk(t)
            ELSE th[t].ret = "ERR_BAD_ARG" /\ CommandsOf(t) = { }

\* The part of C29 the code keeps: blocks and sectors are erased as C29
\* says, and an id at or above the count is refused without I/O.
C29_BlocksAndSectors ==
    \A t \in Threads :
        (ChunkEraseDone(t) /\ th[t].arg[3] # "PAGE") =>
            IF IdInRange(t)
            THEN th[t].ret \in {"ERR_OK", "ERR_DRIVER_ERR"} /\ OneEraseOfChunk(t)
            ELSE th[t].ret = "ERR_BAD_ARG" /\ CommandsOf(t) = { }

(***************************************************************************)
(* What a buffer read puts on the wire                                     *)
(***************************************************************************)
\* A read of the chip's SRAM buffer has returned after sending its command
BufferReadSent ==
    /\ pc = "idle" /\ call.fn \in {"bufferRead", "sramRead"}
    /\ Len(wire) = 1

\* C30: the address bytes a buffer read transmits encode its own
\* startAddress in the current page-size mode: they are those of page 0 and
\* offset startAddress, whatever an earlier call left in the command buffer.
C30_BufferReadAddress ==
    BufferReadSent =>
        /\ wire[1].addr = buildReadWriteCommand(0, call.offset)
        /\ LowBits(Addr24(wire[1].addr), OffsetBits) = call.offset

\* The part of C30 the code keeps: sramRead of the Chimera revision builds
\* its address bytes from its own offset argument.
C30_SramReadAddress ==
    (BufferReadSent /\ call.fn = "sramRead") =>
        /\ wire[1].addr = buildReadWriteCommand(0, call.offset)
        /\ LowBits(Addr24(wire[1].addr), OffsetBits) = call.offset

====
